---- MODULE Spec2Model ----
(***************************************************************************)
(* Model of the paragraph comparison engine of compareDocx (src/compare.py)*)
(* together with the part of the document parser (src/docx_file.py) that   *)
(* feeds it.  Texts are sequences of characters, a character being a       *)
(* one-element string; offsets into Python lists and strings are 0-based   *)
(* as in the source, so the element at offset i of a sequence s is s[i+1]. *)
(***************************************************************************)
EXTENDS Integers, Sequences, FiniteSets, TLC

VARIABLES
    normalize_case,      \* config.comparison.normalize_case
    text,                \* the argument of a _normalize_text call
    out,                 \* the values returned by the successive normalizations
    paragraphs1,         \* DocxFile(file1).paragraphs
    paragraphs2,         \* DocxFile(file2).paragraphs
    comparison_results,  \* Compare.comparison_results
    second_text,         \* the second text of a call that takes two
    file1_tables,        \* DocxFile(file1).tables
    file2_tables,        \* DocxFile(file2).tables
    table_changes,       \* Compare.table_changes
    file1_images,        \* DocxFile(file1).images
    file2_images,        \* DocxFile(file2).images
    image_changes,       \* Compare.image_changes
    llm_adapter,         \* the llm_adapter argument of Compare
    raised,              \* the exception the constructor raised, if any
    returned,            \* the Compare object handed to the caller, if any
    pc                   \* position of the run

vars == <<normalize_case, text, out, paragraphs1, paragraphs2, comparison_results,
         second_text, file1_tables, file2_tables,
         table_changes, file1_images, file2_images, image_changes, llm_adapter,
         raised, returned, pc>>

----------------------------------------------------------------------------
(* Characters.                                                             *)

NBSP == "NBSP"      \* U+00A0, non-breaking space
THSP == "THSP"      \* U+2009, thin space
PUSP == "PUSP"      \* U+2008, punctuation space

\* The characters Python's str.isspace(), str.strip() and the regex class \s
\* accept, among the characters of the model.
Whitespace == {" ", "\t", "\n", "\r", NBSP, THSP, PUSP}

IsSpace(c) == c \in Whitespace

\* str.lower() on one character: the model has one cased letter, "B".
LowerChar(c) == IF c = "B" THEN "b" ELSE c

Lower(s) == [i \in 1..Len(s) |-> LowerChar(s[i])]

----------------------------------------------------------------------------
(* String helpers used by _normalize_text.                                 *)

\* re.sub(cls+, ' ', s): every maximal run of characters of cls becomes one space.
\* The two halves of s are rewritten apart; a run that crosses the middle
\* gives a space on each side, of which one is kept.
RECURSIVE SubRuns(_, _)
SubRuns(s, cls) ==
    IF s = <<>> THEN <<>>
    ELSE IF Len(s) = 1 THEN (IF s[1] \in cls THEN <<" ">> ELSE s)
    ELSE LET half == Len(s) \div 2
             front == SubRuns(SubSeq(s, 1, half), cls)
         IN  (IF s[half] \in cls /\ s[half + 1] \in cls
              THEN SubSeq(front, 1, Len(front) - 1)
              ELSE front)
             \o SubRuns(SubSeq(s, half + 1, Len(s)), cls)

\* re.sub(r'\s', ' ', s): a pattern without the +, which leaves runs as long as they were.
SubEach(s) == [i \in 1..Len(s) |-> IF IsSpace(s[i]) THEN " " ELSE s[i]]

CollapseWhitespace(s) == SubRuns(s, Whitespace)

\* str.replace(old, ' ') for a one-character old.
ReplaceChar(s, old) == [i \in 1..Len(s) |-> IF s[i] = old THEN " " ELSE s[i]]

RECURSIVE LStrip(_)
LStrip(s) == IF s # <<>> /\ IsSpace(Head(s)) THEN LStrip(Tail(s)) ELSE s

RECURSIVE RStrip(_)
RStrip(s) == IF s # <<>> /\ IsSpace(s[Len(s)]) THEN RStrip(SubSeq(s, 1, Len(s) - 1)) ELSE s

\* str.strip()
Strip(s) == RStrip(LStrip(s))

----------------------------------------------------------------------------
(* Compare._normalize_text                                                 *)

\* A one-pass variant: spaces collapsed, ends trimmed, line breaks and special
\* spaces replaced, and nothing cleaned up after the replacements.
NormalizeOnePass(t, fold) ==
    IF t = <<>> THEN <<>>
    ELSE LET t0 == IF fold THEN Lower(t) ELSE t
             t1 == SubRuns(t0, {" "})
             t2 == Strip(t1)
             t3 == SubRuns(t2, {"\n", "\r"})
         IN  ReplaceChar(ReplaceChar(ReplaceChar(t3, NBSP), THSP), PUSP)

\* A variant whose two whitespace patterns lack the +.
NormalizeNoCollapse(t, fold) ==
    IF t = <<>> THEN <<>>
    ELSE LET t0 == IF fold THEN Lower(t) ELSE t
             t2 == Strip(SubEach(t0))
             t3 == SubRuns(t2, {"\n", "\r"})
             t4 == ReplaceChar(ReplaceChar(ReplaceChar(t3, NBSP), THSP), PUSP)
         IN  Strip(SubEach(t4))

_normalize_text(t, fold) ==
    IF t = <<>> THEN <<>>
    ELSE LET t0 == IF fold THEN Lower(t) ELSE t
             t1 == CollapseWhitespace(t0)
             t2 == Strip(t1)
             t3 == SubRuns(t2, {"\n", "\r"})
             t4 == ReplaceChar(ReplaceChar(ReplaceChar(t3, NBSP), THSP), PUSP)
             t5 == CollapseWhitespace(t4)
         IN  Strip(t5)

----------------------------------------------------------------------------
(* The paragraph texts of the comparison runs, as the parser hands them    *)
(* over once stripped.                                                     *)

\* ' '.join(words)
RECURSIVE Join(_)
Join(words) ==
    IF words = <<>> THEN <<>>
    ELSE IF Len(words) = 1 THEN words[1]
    ELSE words[1] \o <<" ">> \o Join(Tail(words))

Letters == <<"a", "b", "c", "d", "e", "f", "g", "h", "i", "j", "k">>

XY == <<"x", " ", "y">>
XnY == <<"x", "\n", "y">>                 \* XY with a line break for the space
XZ == <<"x", " ", "z">>                    \* two thirds similar to XY
LongF == Join([k \in 1..11 |-> <<Letters[k]>>])
LongQ == Join([k \in 1..11 |-> IF k = 6 THEN <<"q">> ELSE <<Letters[k]>>])
                                           \* LongF with another sixth word

TextPool == {XY, XnY, XZ, LongF, LongQ}

\* Texts of twelve words: the sixth and the seventh count in neither half
\* of the fingerprint.
Wide == Join([k \in 1..12 |-> IF k = 12 THEN <<"l">> ELSE <<Letters[k]>>])
WideR == Join([k \in 1..12 |-> IF k = 6 THEN <<"q">>
                                ELSE IF k = 12 THEN <<"l">> ELSE <<Letters[k]>>])
                                           \* Wide with another sixth word
WideQ == Join([k \in 1..12 |-> IF k = 6 THEN <<"q">>
                                ELSE IF k = 7 THEN <<"r">>
                                ELSE IF k = 12 THEN <<"l">> ELSE <<Letters[k]>>])
                                           \* Wide with other sixth and seventh words

\* The texts whose normalization, fingerprint and ratios are computed once.
KnownTexts == TextPool \cup {Wide, WideR, WideQ}

\* The normalizations of the known texts with case kept, computed once: the
\* comparison normalizes the same few texts again and again.  (f @@ <<>> is
\* f with its values stored.)
NormalizeTable ==
    LET once == [t \in KnownTexts |-> _normalize_text(t, FALSE)]
    IN  [t \in KnownTexts \cup {once[u] : u \in KnownTexts} |-> _normalize_text(t, FALSE)]
            @@ <<>>

\* The stored value of key when it is stored and wanted, and else computed.
Stored(table, wanted, key, computed) ==
    IF wanted /\ key \in DOMAIN table THEN table[key] ELSE computed

\* self._normalize_text(t)
NormalizedText(t, fold) == Stored(NormalizeTable, ~fold, t, _normalize_text(t, fold))

----------------------------------------------------------------------------
(* Similarity values.  Python computes 2.0 * matches / length in floating  *)
(* point; the model keeps the exact fraction in lowest terms.  The         *)
(* thresholds of the configuration are hundredths, and a quotient of two   *)
(* small integers compares with 0.6, 0.8, 0.95 and 1.0 as the exact        *)
(* fraction does, division being correctly rounded.                        *)

RECURSIVE Gcd(_, _)
Gcd(x, y) == IF y = 0 THEN x ELSE Gcd(y, x % y)

Frac(n, d) == LET g == Gcd(n, d) IN [num |-> n \div g, den |-> d \div g]

One == [num |-> 1, den |-> 1]     \* 1.0
Zero == [num |-> 0, den |-> 1]    \* 0.0

\* x > y
Greater(x, y) == x.num * y.den > y.num * x.den

\* x >= pct / 100
AtLeast(x, pct) == x.num * 100 >= pct * x.den

\* ComparisonConfig defaults, in hundredths.
similarity_threshold_identical == 100
similarity_threshold_high == 95
similarity_threshold_medium == 80
similarity_threshold_low == 60
fingerprint_first_words == 5
fingerprint_last_words == 5

----------------------------------------------------------------------------
(* difflib.SequenceMatcher(None, a, b) of the Python standard library, as  *)
(* compare.py uses it: no junk function, and autojunk left on, so that in  *)
(* a b of 200 elements or more the elements occurring more than 1% of the  *)
(* time plus once are "popular" and start no match.                        *)

SetMax(S) == CHOOSE x \in S : \A y \in S : y <= x
SetMin(S) == CHOOSE x \in S : \A y \in S : x <= y

\* The popular elements of b, which __chain_b removes from b2j.
Popular(b) ==
    IF Len(b) >= 200
    THEN {b[j] : j \in {h \in 1..Len(b) :
                          Cardinality({g \in 1..Len(b) : b[g] = b[h]}) > Len(b) \div 100 + 1}}
    ELSE {}

\* Length of the common run of a and b that starts at offsets i and j and
\* holds no element of skip.
RECURSIVE RunLen(_, _, _, _, _, _, _)
RunLen(a, b, i, j, ahi, bhi, skip) ==
    IF i < ahi /\ j < bhi /\ a[i + 1] = b[j + 1] /\ b[j + 1] \notin skip
    THEN 1 + RunLen(a, b, i + 1, j + 1, ahi, bhi, skip)
    ELSE 0

\* The number of equal elements just before offsets i and j, down to alo and blo.
RECURSIVE RunLenBack(_, _, _, _, _, _)
RunLenBack(a, b, i, j, alo, blo) ==
    IF i > alo /\ j > blo /\ a[i] = b[j]
    THEN 1 + RunLenBack(a, b, i - 1, j - 1, alo, blo)
    ELSE 0

\* The first loop of find_longest_match: the longest block a[i:i+k] = b[j:j+k]
\* of elements that are not popular inside a[alo:ahi] and b[blo:bhi]; of the
\* longest blocks the one starting earliest in a, and of those the one starting
\* earliest in b.  (alo, blo, 0) when there is none.
LongestSeed(a, b, alo, ahi, blo, bhi, popular) ==
    LET starts == {p \in (alo..(ahi - 1)) \X (blo..(bhi - 1)) :
                      a[p[1] + 1] = b[p[2] + 1] /\ b[p[2] + 1] \notin popular}
        run == [p \in starts |-> RunLen(a, b, p[1], p[2], ahi, bhi, popular)]
    IN  IF starts = {} THEN [a |-> alo, b |-> blo, size |-> 0]
        ELSE LET k == SetMax({run[p] : p \in starts})
                 i == SetMin({p[1] : p \in {q \in starts : run[q] = k}})
                 j == SetMin({p[2] : p \in {q \in starts : run[q] = k /\ q[1] = i}})
             IN  [a |-> i, b |-> j, size |-> k]

\* The loops of find_longest_match that extend the block over equal elements,
\* popular or not, first downwards and then upwards.
ExtendMatch(a, b, alo, ahi, blo, bhi, seed) ==
    LET back == RunLenBack(a, b, seed.a, seed.b, alo, blo)
        forth == RunLen(a, b, seed.a + seed.size, seed.b + seed.size, ahi, bhi, {})
    IN  [a |-> seed.a - back, b |-> seed.b - back, size |-> back + seed.size + forth]

find_longest_match(a, b, alo, ahi, blo, bhi) ==
    ExtendMatch(a, b, alo, ahi, blo, bhi,
                LongestSeed(a, b, alo, ahi, blo, bhi, Popular(b)))

\* The blocks get_matching_blocks collects from its work queue: the longest
\* match x, then the same to the left of it and to the right of it.
RECURSIVE BlocksIn(_, _, _, _, _, _)
BlocksAround(a, b, alo, ahi, blo, bhi, x) ==
    IF x.size = 0 THEN {}
    ELSE {x}
         \cup (IF alo < x.a /\ blo < x.b
               THEN BlocksIn(a, b, alo, x.a, blo, x.b) ELSE {})
         \cup (IF x.a + x.size < ahi /\ x.b + x.size < bhi
               THEN BlocksIn(a, b, x.a + x.size, ahi, x.b + x.size, bhi) ELSE {})

BlocksIn(a, b, alo, ahi, blo, bhi) ==
    BlocksAround(a, b, alo, ahi, blo, bhi, find_longest_match(a, b, alo, ahi, blo, bhi))

\* matching_blocks.sort(): the blocks start at distinct offsets of a.
RECURSIVE SortBlocks(_)
SortBlocks(S) ==
    IF S = {} THEN <<>>
    ELSE LET m == CHOOSE x \in S : \A y \in S : x.a <= y.a
         IN  <<m>> \o SortBlocks(S \ {m})

\* The loop that merges adjacent blocks; cur is (i1, j1, k1).
RECURSIVE CollapseAdjacent(_, _)
CollapseAdjacent(blocks, cur) ==
    IF blocks = <<>> THEN (IF cur.size > 0 THEN <<cur>> ELSE <<>>)
    ELSE LET x == Head(blocks)
         IN  IF cur.a + cur.size = x.a /\ cur.b + cur.size = x.b
             THEN CollapseAdjacent(Tail(blocks), [cur EXCEPT !.size = cur.size + x.size])
             ELSE (IF cur.size > 0 THEN <<cur>> ELSE <<>>)
                  \o CollapseAdjacent(Tail(blocks), x)

get_matching_blocks(a, b) ==
    CollapseAdjacent(SortBlocks(BlocksIn(a, b, 0, Len(a), 0, Len(b))),
                     [a |-> 0, b |-> 0, size |-> 0])
    \o <<[a |-> Len(a), b |-> Len(b), size |-> 0]>>

RECURSIVE SumSizes(_)
SumSizes(blocks) == IF blocks = <<>> THEN 0 ELSE Head(blocks).size + SumSizes(Tail(blocks))

\* SequenceMatcher(None, a, b).ratio()
SequenceRatio(a, b) ==
    LET matches == SumSizes(get_matching_blocks(a, b))
        length == Len(a) + Len(b)
    IN  IF length > 0 THEN Frac(2 * matches, length) ELSE One

\* The ratios of the normalized texts of the pool, computed once.
RatioTable ==
    LET norms == {NormalizeTable[t] : t \in KnownTexts}
    IN  [p \in norms \X norms |-> SequenceRatio(p[1], p[2])] @@ <<>>

ratio(a, b) == Stored(RatioTable, TRUE, <<a, b>>, SequenceRatio(a, b))

----------------------------------------------------------------------------
(* Compare._get_text_fingerprint                                           *)

\* str.split(): the maximal runs of non-whitespace characters.
RECURSIVE Split(_)
Split(s) ==
    LET t == LStrip(s)
        RECURSIVE WordEnd(_)
        WordEnd(k) == IF k < Len(t) /\ ~IsSpace(t[k + 1]) THEN WordEnd(k + 1) ELSE k
    IN  IF t = <<>> THEN <<>>
        ELSE LET e == WordEnd(1)
             IN  <<SubSeq(t, 1, e)>> \o Split(SubSeq(t, e + 1, Len(t)))

\* str(n) for n >= 0
RECURSIVE Str(_)
Str(n) ==
    LET digit == <<"0", "1", "2", "3", "4", "5", "6", "7", "8", "9">>
    IN  IF n < 10 THEN <<digit[n + 1]>> ELSE Str(n \div 10) \o <<digit[(n % 10) + 1]>>

\* s[:n] and s[-n:] for n > 0: slices stop at the ends of the list.
FirstItems(s, n) == SubSeq(s, 1, IF n < Len(s) THEN n ELSE Len(s))
LastItems(s, n) == SubSeq(s, IF n < Len(s) THEN Len(s) - n + 1 ELSE 1, Len(s))

\* A variant of the fingerprint without the length of the normalized text.
FingerprintWithoutLength(normalized, words) ==
    IF Len(words) = 0 THEN <<>>
    ELSE Join(FirstItems(words, fingerprint_first_words)) \o <<"|">>
         \o (IF Len(words) > fingerprint_last_words
             THEN Join(LastItems(words, fingerprint_last_words)) ELSE <<>>)
         \o <<"|">> \o Str(Len(words))

\* The fingerprint of a normalized text and its words.
FingerprintOfWords(normalized, words) ==
    LET first_words == Join(FirstItems(words, fingerprint_first_words))
        last_words == IF Len(words) > fingerprint_last_words
                      THEN Join(LastItems(words, fingerprint_last_words))
                      ELSE <<>>
    IN  IF Len(words) = 0 THEN <<>>
        ELSE first_words \o <<"|">> \o last_words \o <<"|">> \o Str(Len(normalized))
             \o <<"|">> \o Str(Len(words))

FingerprintOfNormalized(normalized) == FingerprintOfWords(normalized, Split(normalized))

_get_text_fingerprint(t, fold) == FingerprintOfNormalized(NormalizedText(t, fold))

\* The fingerprints of the pool with case kept, computed once.
FingerprintTable == [t \in KnownTexts |-> _get_text_fingerprint(t, FALSE)] @@ <<>>

\* self._get_text_fingerprint(t)
Fingerprint(t, fold) == Stored(FingerprintTable, ~fold, t, _get_text_fingerprint(t, fold))

----------------------------------------------------------------------------
(* Compare._calculate_similarity and Compare._find_best_match_by_content   *)

\* The similarity computed on the texts as given, unnormalized.
SimilarityOfRawTexts(text1, text2, fold) ==
    IF text1 = text2 THEN One ELSE SequenceRatio(text1, text2)

\* The similarity of two normalized texts.
SimilarityOfNormalized(norm1, norm2) == IF norm1 = norm2 THEN One ELSE ratio(norm1, norm2)

_calculate_similarity(text1, text2, fold) ==
    SimilarityOfNormalized(NormalizedText(text1, fold), NormalizedText(text2, fold))

\* set(norm.lower().split())
WordSet(norm) == LET words == Split(Lower(norm)) IN {words[k] : k \in 1..Len(words)}

\* The seven labels of Compare._determine_change_type, in English: the source
\* returns them in Russian.
ChangeTypeLabels ==
    {"formatting change", "word-order change", "text addition", "text deletion",
     "major addition", "major deletion", "content change"}

\* A variant that compares the word sets without lowercasing them.
DetermineChangeTypeCased(text1, text2, fold) ==
    LET norm1 == NormalizedText(text1, fold)
        norm2 == NormalizedText(text2, fold)
        w1 == Split(norm1)
        w2 == Split(norm2)
        words1 == {w1[k] : k \in 1..Len(w1)}
        words2 == {w2[k] : k \in 1..Len(w2)}
    IN  IF norm1 = norm2 THEN "formatting change"
        ELSE IF words1 = words2 THEN "word-order change"
        ELSE IF words2 \ words1 # {} /\ words1 \ words2 = {} THEN "text addition"
        ELSE IF words1 \ words2 # {} /\ words2 \ words1 = {} THEN "text deletion"
        ELSE IF Cardinality(words2 \ words1) > Cardinality(words1 \ words2) * 2
             THEN "major addition"
        ELSE IF Cardinality(words1 \ words2) > Cardinality(words2 \ words1) * 2
             THEN "major deletion"
        ELSE "content change"

\* The label chosen from the two normalized texts and their word sets.
ChangeTypeOfWords(norm1, norm2, words1, words2) ==
    IF norm1 = norm2 THEN "formatting change"
    ELSE IF words1 = words2 THEN "word-order change"
    ELSE IF words2 \ words1 # {} /\ words1 \ words2 = {} THEN "text addition"
    ELSE IF words1 \ words2 # {} /\ words2 \ words1 = {} THEN "text deletion"
    ELSE IF Cardinality(words2 \ words1) > Cardinality(words1 \ words2) * 2
         THEN "major addition"
    ELSE IF Cardinality(words1 \ words2) > Cardinality(words2 \ words1) * 2
         THEN "major deletion"
    ELSE "content change"

ChangeTypeOf(norm1, norm2) ==
    ChangeTypeOfWords(norm1, norm2, WordSet(norm1), WordSet(norm2))

_determine_change_type(text1, text2, fold) ==
    ChangeTypeOf(NormalizedText(text1, fold), NormalizedText(text2, fold))

\* A variant in which a candidate as similar as the best so far replaces it.
BetterOrEqual(idx, similarity, best) ==
    IF ~Greater(best.similarity, similarity)
    THEN [idx |-> idx, similarity |-> similarity]
    ELSE best

\* best_match and best_similarity after the candidate idx is looked at.
Better(idx, similarity, best) ==
    IF Greater(similarity, best.similarity)
    THEN [idx |-> idx, similarity |-> similarity]
    ELSE best

\* The loop over normalized_texts from offset idx on, with the best so far.
RECURSIVE BestMatchFrom(_, _, _, _, _)
BestMatchFrom(idx, normalized_text, normalized_texts, excluded_indices, best) ==
    IF idx >= Len(normalized_texts) THEN best
    ELSE IF idx \in excluded_indices
         THEN BestMatchFrom(idx + 1, normalized_text, normalized_texts, excluded_indices, best)
         ELSE BestMatchFrom(idx + 1, normalized_text, normalized_texts, excluded_indices,
                  Better(idx, ratio(normalized_text, normalized_texts[idx + 1]), best))

_find_best_match_by_content(normalized_text, normalized_texts, excluded_indices) ==
    BestMatchFrom(0, normalized_text, normalized_texts, excluded_indices,
                  [idx |-> -1, similarity |-> Zero])

----------------------------------------------------------------------------
(* Compare._get_differences.  An entry of the list is a sentence of the    *)
(* source's Russian wording around one or two quoted texts; the model      *)
(* keeps the wording as a kind and the quoted texts as old and new.        *)

short_text_length == 100     \* both texts shorter: compared whole
max_differences == 10        \* differences[:10]

Entry(kind, old, new) == [kind |-> kind, old |-> old, new |-> new]

IsSentenceEnd(c) == c \in {".", "!", "?"}

\* The offset after the run of whitespace that starts at offset k.
RECURSIVE SkipSpaces(_, _)
SkipSpaces(s, k) == IF k < Len(s) /\ IsSpace(s[k + 1]) THEN SkipSpaces(s, k + 1) ELSE k

\* The least k >= from with s[k] a sentence end followed by whitespace, or 0.
RECURSIVE SentenceBreak(_, _)
SentenceBreak(s, from) ==
    IF from >= Len(s) THEN 0
    ELSE IF IsSentenceEnd(s[from]) /\ IsSpace(s[from + 1]) THEN from
    ELSE SentenceBreak(s, from + 1)

\* re.split(r'[.!?]\s+', s)
RECURSIVE SplitSentences(_)
SplitAt(s, k) ==
    IF k = 0 THEN <<s>>
    ELSE <<SubSeq(s, 1, k - 1)>> \o SplitSentences(SubSeq(s, SkipSpaces(s, k) + 1, Len(s)))

SplitSentences(s) == SplitAt(s, SentenceBreak(s, 1))

\* The offsets of a (side = "a") or of b covered by the blocks.
Covered(blocks, side) ==
    UNION {IF side = "a"
           THEN blocks[k].a..(blocks[k].a + blocks[k].size - 1)
           ELSE blocks[k].b..(blocks[k].b + blocks[k].size - 1) : k \in 1..Len(blocks)}

\* The entries of the sentences outside the matched offsets that are not blank.
RECURSIVE SentenceEntries(_, _, _, _)
SentenceEntries(sentences, matched, kind, i) ==
    IF i >= Len(sentences) THEN <<>>
    ELSE (IF i \notin matched /\ Strip(sentences[i + 1]) # <<>>
          THEN <<IF kind = "deleted sentence"
                 THEN Entry(kind, Strip(sentences[i + 1]), <<>>)
                 ELSE Entry(kind, <<>>, Strip(sentences[i + 1]))>>
          ELSE <<>>)
         \o SentenceEntries(sentences, matched, kind, i + 1)

SentenceDifferences(sentences1, sentences2, blocks) ==
    SentenceEntries(sentences1, Covered(blocks, "a"), "deleted sentence", 0)
    \o SentenceEntries(sentences2, Covered(blocks, "b"), "added sentence", 0)

\* SequenceMatcher.get_opcodes(): the tags between and on the matching
\* blocks, from offsets i and j on.
OpcodeTag(i, j, block) ==
    IF i < block.a /\ j < block.b THEN "replace"
    ELSE IF i < block.a THEN "delete"
    ELSE IF j < block.b THEN "insert"
    ELSE ""

RECURSIVE OpcodesFrom(_, _, _)
OpcodesFrom(blocks, i, j) ==
    IF blocks = <<>> THEN <<>>
    ELSE (IF OpcodeTag(i, j, Head(blocks)) # ""
          THEN <<[tag |-> OpcodeTag(i, j, Head(blocks)),
                  i1 |-> i, i2 |-> Head(blocks).a, j1 |-> j, j2 |-> Head(blocks).b]>>
          ELSE <<>>)
         \o (IF Head(blocks).size > 0
             THEN <<[tag |-> "equal",
                     i1 |-> Head(blocks).a, i2 |-> Head(blocks).a + Head(blocks).size,
                     j1 |-> Head(blocks).b, j2 |-> Head(blocks).b + Head(blocks).size]>>
             ELSE <<>>)
         \o OpcodesFrom(Tail(blocks), Head(blocks).a + Head(blocks).size,
                        Head(blocks).b + Head(blocks).size)

get_opcodes(a, b) == OpcodesFrom(get_matching_blocks(a, b), 0, 0)

\* ' '.join(words[i1:i2])
Phrase(words, i1, i2) == Join(SubSeq(words, i1 + 1, i2))

\* The entry of one opcode of the word comparison, if it has one.
WordEntry(words1, words2, op) ==
    IF op.tag = "delete" /\ Phrase(words1, op.i1, op.i2) # <<>>
    THEN <<Entry("deleted", Phrase(words1, op.i1, op.i2), <<>>)>>
    ELSE IF op.tag = "insert" /\ Phrase(words2, op.j1, op.j2) # <<>>
    THEN <<Entry("added", <<>>, Phrase(words2, op.j1, op.j2))>>
    ELSE IF op.tag = "replace" /\ Phrase(words1, op.i1, op.i2) # <<>>
            /\ Phrase(words2, op.j1, op.j2) # <<>>
    THEN <<Entry("changed", Phrase(words1, op.i1, op.i2), Phrase(words2, op.j1, op.j2))>>
    ELSE <<>>

RECURSIVE WordEntries(_, _, _)
WordEntries(words1, words2, opcodes) ==
    IF opcodes = <<>> THEN <<>>
    ELSE WordEntry(words1, words2, Head(opcodes))
         \o WordEntries(words1, words2, Tail(opcodes))

WordDifferences(words1, words2) == WordEntries(words1, words2, get_opcodes(words1, words2))

FullTexts(text1, text2) == <<Entry("old text", text1, <<>>), Entry("new text", <<>>, text2)>>

\* differences[:10] of the first list that is not empty.
FirstNonEmpty(by_sentence, by_word, whole) ==
    FirstItems(IF by_sentence # <<>> THEN by_sentence
               ELSE IF by_word # <<>> THEN by_word
               ELSE whole, max_differences)

\* A variant that returns the whole list.
DifferencesUncut(text1, text2, norm1, norm2) ==
    IF norm1 = norm2 /\ text1 # text2 THEN <<Entry("formatting", text1, <<>>)>>
    ELSE IF Len(norm1) < short_text_length /\ Len(norm2) < short_text_length
    THEN (IF norm1 # norm2 THEN FullTexts(text1, text2) ELSE <<>>)
    ELSE LET by_sentence == SentenceDifferences(SplitSentences(norm1), SplitSentences(norm2),
                 get_matching_blocks(SplitSentences(norm1), SplitSentences(norm2)))
         IN  IF by_sentence # <<>> THEN by_sentence
             ELSE IF WordDifferences(Split(norm1), Split(norm2)) # <<>>
             THEN WordDifferences(Split(norm1), Split(norm2))
             ELSE FullTexts(text1, text2)

DifferencesOfNormalized(text1, text2, norm1, norm2) ==
    IF norm1 = norm2 /\ text1 # text2 THEN <<Entry("formatting", text1, <<>>)>>
    ELSE IF Len(norm1) < short_text_length /\ Len(norm2) < short_text_length
    THEN (IF norm1 # norm2 THEN FullTexts(text1, text2) ELSE <<>>)
    ELSE FirstNonEmpty(
             SentenceDifferences(SplitSentences(norm1), SplitSentences(norm2),
                 get_matching_blocks(SplitSentences(norm1), SplitSentences(norm2))),
             WordDifferences(Split(norm1), Split(norm2)),
             FullTexts(text1, text2))

_get_differences(text1, text2, fold) ==
    DifferencesOfNormalized(text1, text2, NormalizedText(text1, fold),
                            NormalizedText(text2, fold))

----------------------------------------------------------------------------
(* Compare._compare_documents                                              *)

None == <<>>            \* Python's None, for an optional field
Some(x) == <<x>>        \* a present optional field

\* Compare._build_change_description.  The description is kept as the list
\* description_parts that the code joins with ". "; a part is its wording
\* (kind) and the texts it quotes.  The alphabets of the runs hold no
\* Cyrillic letter and no digit, so the searches for a version number and
\* for a numbered item in the path find nothing.
preview_limit == 200         \* a longer text is quoted as a preview
preview_length == 150        \* text[:150]
phrase_limit == 100          \* a replaced phrase this long is not quoted

Part(kind, old, new) == [kind |-> kind, old |-> old, new |-> new]

\* The quoted text of an added or deleted paragraph.
Quoted(t) ==
    IF Len(t) <= preview_limit THEN t
    ELSE Strip(ReplaceChar(FirstItems(t, preview_length), "\n")) \o <<".", ".", ".">>

\* The first replace opcode of the word comparison, as a part, if its two
\* phrases are short enough.
RECURSIVE FirstReplace(_, _, _)
FirstReplace(words1, words2, opcodes) ==
    IF opcodes = <<>> THEN <<>>
    ELSE IF Head(opcodes).tag = "replace"
    THEN (IF /\ Phrase(words1, Head(opcodes).i1, Head(opcodes).i2) # <<>>
             /\ Phrase(words2, Head(opcodes).j1, Head(opcodes).j2) # <<>>
             /\ Len(Phrase(words1, Head(opcodes).i1, Head(opcodes).i2)) < phrase_limit
             /\ Len(Phrase(words2, Head(opcodes).j1, Head(opcodes).j2)) < phrase_limit
          THEN <<Part("changed", Phrase(words1, Head(opcodes).i1, Head(opcodes).i2),
                      Phrase(words2, Head(opcodes).j1, Head(opcodes).j2))>>
          ELSE FirstReplace(words1, words2, Tail(opcodes)))
    ELSE FirstReplace(words1, words2, Tail(opcodes))

\* The part that words a modification of text1 into text2.
ModifiedPart(text1, text2, norm1, norm2, replaced) ==
    IF norm1 = norm2 THEN <<Part("formatting only", <<>>, <<>>)>>
    ELSE IF replaced # <<>> THEN replaced
    ELSE IF Len(text1) <= phrase_limit /\ Len(text2) <= phrase_limit
    THEN <<Part("changed", text1, text2)>>
    ELSE <<Part("paragraph text changed", <<>>, <<>>)>>

ModifiedParts(text1, text2, norm1, norm2) ==
    ModifiedPart(text1, text2, norm1, norm2,
                 FirstReplace(Split(norm1), Split(norm2),
                              get_opcodes(Split(norm1), Split(norm2))))

\* full_path_2 or full_path_1 or ""
PathOf(result) ==
    IF result.full_path_2 # None /\ result.full_path_2[1] # <<>> THEN result.full_path_2[1]
    ELSE IF result.full_path_1 # None /\ result.full_path_1[1] # <<>>
    THEN result.full_path_1[1]
    ELSE <<>>

\* The parts that come before the wording of the change: the path and the
\* page of the second document.
LeadingParts(result) ==
    (IF PathOf(result) # <<>> THEN <<Part("path", <<>>, PathOf(result))>> ELSE <<>>)
    \o (IF result.page_2 # None /\ result.page_2[1] # 0
        THEN <<Part("page", <<>>, result.page_2[1])>>
        ELSE <<>>)

_build_change_description(result, fold) ==
    IF result.status = "identical" THEN <<>>
    ELSE LeadingParts(result)
         \o (IF result.status = "added"
             THEN <<Part("added paragraph", <<>>, <<>>)>>
                  \o (IF result.text_2 # None /\ result.text_2[1] # <<>>
                      THEN <<Part("quote", <<>>, Quoted(result.text_2[1]))>> ELSE <<>>)
             ELSE IF result.status = "deleted"
             THEN <<Part("deleted paragraph", <<>>, <<>>)>>
                  \o (IF result.text_1 # None /\ result.text_1[1] # <<>>
                      THEN <<Part("quote", Quoted(result.text_1[1]), <<>>)>> ELSE <<>>)
             ELSE IF /\ result.status = "modified"
                     /\ result.text_1 # None /\ result.text_1[1] # <<>>
                     /\ result.text_2 # None /\ result.text_2[1] # <<>>
             THEN ModifiedParts(result.text_1[1], result.text_2[1],
                                NormalizedText(result.text_1[1], fold),
                                NormalizedText(result.text_2[1], fold))
             ELSE <<>>)

\* Steps 4 and 5: the pairs (idx1, idx2) of the matching blocks of the two
\* lists of normalized texts.
PairsOfBlocks(blocks) ==
    UNION {{<<blocks[k].a + offset, blocks[k].b + offset>> :
               offset \in 0..(blocks[k].size - 1)} : k \in 1..Len(blocks)}

PositionPairs(normalized_texts1, normalized_texts2) ==
    PairsOfBlocks(get_matching_blocks(normalized_texts1, normalized_texts2))

\* match_map and matched_indices_2 after the matching blocks are recorded.
\* (matched_indices_1 is written by the source and never read.)
MatchOfPairs(pairs) ==
    [match_map |-> [idx1 \in {p[1] : p \in pairs} |->
                        CHOOSE idx2 \in {p[2] : p \in pairs} : <<idx1, idx2>> \in pairs],
     matched_indices_2 |-> {p[2] : p \in pairs}]

PositionMatch(normalized_texts1, normalized_texts2) ==
    MatchOfPairs(PositionPairs(normalized_texts1, normalized_texts2))

\* fingerprint_index2[fp]: the offsets of document 2 with fingerprint fp, ascending.
Candidates(fp, fingerprints2) ==
    SelectSeq([k \in 1..Len(fingerprints2) |-> k - 1],
              LAMBDA idx2 : fingerprints2[idx2 + 1] = fp)

\* Step 3: the index of document 2 by fingerprint; empty fingerprints are
\* left out.
fingerprint_index2(fingerprints2) ==
    [fp \in {fingerprints2[k] : k \in 1..Len(fingerprints2)} \ {<<>>} |->
        Candidates(fp, fingerprints2)]

\* The inner loop of step 6 without its test that the candidate is still free.
RECURSIVE ScanCandidatesAnyTarget(_, _, _, _, _, _)
ScanCandidatesAnyTarget(candidates, idx1, normalized_texts1, normalized_texts2, st, fold) ==
    IF candidates = <<>> THEN st
    ELSE LET idx2 == Head(candidates)
             norm1 == normalized_texts1[idx1 + 1]
             norm2 == normalized_texts2[idx2 + 1]
         IN  IF /\ \/ norm1 = norm2
                   \/ AtLeast(_calculate_similarity(norm1, norm2, fold),
                              similarity_threshold_high)
                /\ idx1 \notin DOMAIN st.match_map
             THEN [match_map |-> [i \in DOMAIN st.match_map \cup {idx1} |->
                                     IF i = idx1 THEN idx2 ELSE st.match_map[i]],
                   matched_indices_2 |-> st.matched_indices_2 \cup {idx2}]
             ELSE ScanCandidatesAnyTarget(Tail(candidates), idx1, normalized_texts1,
                                          normalized_texts2, st, fold)

\* The inner loop of step 6 without its test that idx1 has no target yet.
RECURSIVE ScanCandidatesOverwriting(_, _, _, _, _, _)
ScanCandidatesOverwriting(candidates, idx1, normalized_texts1, normalized_texts2, st, fold) ==
    IF candidates = <<>> THEN st
    ELSE LET idx2 == Head(candidates)
             norm1 == normalized_texts1[idx1 + 1]
             norm2 == normalized_texts2[idx2 + 1]
         IN  IF /\ idx2 \notin st.matched_indices_2
                /\ \/ norm1 = norm2
                   \/ AtLeast(_calculate_similarity(norm1, norm2, fold),
                              similarity_threshold_high)
             THEN [match_map |-> [i \in DOMAIN st.match_map \cup {idx1} |->
                                     IF i = idx1 THEN idx2 ELSE st.match_map[i]],
                   matched_indices_2 |-> st.matched_indices_2 \cup {idx2}]
             ELSE ScanCandidatesOverwriting(Tail(candidates), idx1, normalized_texts1,
                                            normalized_texts2, st, fold)

\* The inner loop of step 6 without its test of the two texts.
RECURSIVE ScanCandidatesAnyText(_, _, _, _, _, _)
ScanCandidatesAnyText(candidates, idx1, normalized_texts1, normalized_texts2, st, fold) ==
    IF candidates = <<>> THEN st
    ELSE LET idx2 == Head(candidates)
         IN  IF /\ idx2 \notin st.matched_indices_2
                /\ idx1 \notin DOMAIN st.match_map
             THEN [match_map |-> [i \in DOMAIN st.match_map \cup {idx1} |->
                                     IF i = idx1 THEN idx2 ELSE st.match_map[i]],
                   matched_indices_2 |-> st.matched_indices_2 \cup {idx2}]
             ELSE ScanCandidatesAnyText(Tail(candidates), idx1, normalized_texts1,
                                        normalized_texts2, st, fold)

\* Step 6, the inner loop over the candidates of idx1.
RECURSIVE ScanCandidates(_, _, _, _, _, _)
ScanCandidates(candidates, idx1, normalized_texts1, normalized_texts2, st, fold) ==
    IF candidates = <<>> THEN st
    ELSE LET idx2 == Head(candidates)
             norm1 == normalized_texts1[idx1 + 1]
             norm2 == normalized_texts2[idx2 + 1]
         IN  IF /\ idx2 \notin st.matched_indices_2
                /\ \/ norm1 = norm2
                   \/ AtLeast(_calculate_similarity(norm1, norm2, fold),
                              similarity_threshold_high)
                /\ idx1 \notin DOMAIN st.match_map
             THEN [match_map |-> [i \in DOMAIN st.match_map \cup {idx1} |->
                                     IF i = idx1 THEN idx2 ELSE st.match_map[i]],
                   matched_indices_2 |-> st.matched_indices_2 \cup {idx2}]
             ELSE ScanCandidates(Tail(candidates), idx1, normalized_texts1,
                                 normalized_texts2, st, fold)

\* Step 6 left out: the position matches stand as they are.
NoFingerprintPass(idx1, fingerprints1, fingerprints2, normalized_texts1, normalized_texts2, st, fold) == st

\* Step 6, the outer loop over fingerprints1 from offset idx1 on.
RECURSIVE FingerprintMatchFrom(_, _, _, _, _, _, _)
FingerprintMatchFrom(idx1, fingerprints1, fingerprints2, normalized_texts1, normalized_texts2, st, fold) ==
    IF idx1 >= Len(fingerprints1) THEN st
    ELSE FingerprintMatchFrom(idx1 + 1, fingerprints1, fingerprints2,
             normalized_texts1, normalized_texts2,
             IF fingerprints1[idx1 + 1] # <<>>
                /\ fingerprints1[idx1 + 1] \in DOMAIN fingerprint_index2(fingerprints2)
             THEN ScanCandidates(fingerprint_index2(fingerprints2)[fingerprints1[idx1 + 1]],
                                 idx1, normalized_texts1, normalized_texts2, st, fold)
             ELSE st,
             fold)

\* The fingerprint pass started at the second source paragraph.
MatchStateSkippingFirst(paras1, paras2, fold) ==
    LET normalized_texts1 == [k \in 1..Len(paras1) |-> NormalizedText(paras1[k].text, fold)]
        normalized_texts2 == [k \in 1..Len(paras2) |-> NormalizedText(paras2[k].text, fold)]
        fingerprints1 == [k \in 1..Len(paras1) |-> Fingerprint(paras1[k].text, fold)]
        fingerprints2 == [k \in 1..Len(paras2) |-> Fingerprint(paras2[k].text, fold)]
    IN  FingerprintMatchFrom(1, fingerprints1, fingerprints2, normalized_texts1,
                             normalized_texts2,
                             PositionMatch(normalized_texts1, normalized_texts2), fold)

\* match_map and matched_indices_2 when the loop over paragraphs1 starts.
MatchStateOf(paras1, paras2, normalized_texts1, normalized_texts2, fold) ==
    FingerprintMatchFrom(0, [k \in 1..Len(paras1) |-> Fingerprint(paras1[k].text, fold)],
                         [k \in 1..Len(paras2) |-> Fingerprint(paras2[k].text, fold)],
                         normalized_texts1, normalized_texts2,
                         PositionMatch(normalized_texts1, normalized_texts2), fold)

MatchState(paras1, paras2, fold) ==
    MatchStateOf(paras1, paras2,
                 [k \in 1..Len(paras1) |-> NormalizedText(paras1[k].text, fold)],
                 [k \in 1..Len(paras2) |-> NormalizedText(paras2[k].text, fold)], fold)

\* The initial record with "modified" as its default status.
DeletedRecordWrongDefault(idx1, para1) ==
    [index_1 |-> Some(idx1 + 1), text_1 |-> Some(para1.text),
     index_2 |-> None, text_2 |-> None,
     full_path_1 |-> Some(para1.full_path), page_1 |-> Some(para1.page),
     full_path_2 |-> None, page_2 |-> None,
     status |-> "modified", similarity |-> Zero,
     differences |-> <<>>, change_description |-> <<>>,
     change_type |-> "", llm_response |-> ""]

\* The record of a source paragraph before it is classified.
DeletedRecord(idx1, para1) ==
    [index_1 |-> Some(idx1 + 1), text_1 |-> Some(para1.text),
     index_2 |-> None, text_2 |-> None,
     full_path_1 |-> Some(para1.full_path), page_1 |-> Some(para1.page),
     full_path_2 |-> None, page_2 |-> None,
     status |-> "deleted", similarity |-> Zero,
     differences |-> <<>>, change_description |-> <<>>,
     change_type |-> "", llm_response |-> ""]

\* The mapped record with > for >= in the test for identical.
MappedRecordStrict(idx1, para1, idx2, para2, fold) ==
    LET similarity == _calculate_similarity(para1.text, para2.text, fold)
    IN  [DeletedRecord(idx1, para1) EXCEPT
            !.index_2 = Some(idx2 + 1),
            !.text_2 = Some(para2.text),
            !.similarity = similarity,
            !.status = IF Greater(similarity, One) THEN "identical" ELSE "modified"]

\* The mapped record with the medium threshold in the test for identical.
MappedRecordMedium(idx1, para1, idx2, para2, fold) ==
    LET similarity == _calculate_similarity(para1.text, para2.text, fold)
    IN  [DeletedRecord(idx1, para1) EXCEPT
            !.index_2 = Some(idx2 + 1),
            !.text_2 = Some(para2.text),
            !.similarity = similarity,
            !.status = IF AtLeast(similarity, similarity_threshold_medium)
                       THEN "identical" ELSE "modified"]

\* The record of idx1 once idx2 is paired with it.
\* A variant that leaves the page of document 2 unset.
PairedRecordWithoutPage(idx1, para1, idx2, para2, similarity, status) ==
    [DeletedRecord(idx1, para1) EXCEPT
        !.index_2 = Some(idx2 + 1),
        !.text_2 = Some(para2.text),
        !.full_path_2 = Some(para2.full_path),
        !.similarity = similarity,
        !.status = status]

PairedRecord(idx1, para1, idx2, para2, similarity, status) ==
    [DeletedRecord(idx1, para1) EXCEPT
        !.index_2 = Some(idx2 + 1),
        !.text_2 = Some(para2.text),
        !.full_path_2 = Some(para2.full_path),
        !.page_2 = Some(para2.page),
        !.similarity = similarity,
        !.status = status]

\* The three fields written for a pair that is not identical.
Described(result, text1, text2, fold) ==
    [result EXCEPT
        !.differences = _get_differences(text1, text2, fold),
        !.change_description = _build_change_description(result, fold),
        !.change_type = _determine_change_type(text1, text2, fold)]

\* The record of idx1 when match_map holds it.
MappedRecordOf(idx1, para1, idx2, para2, fold, similarity) ==
    IF AtLeast(similarity, similarity_threshold_identical)
    THEN [PairedRecord(idx1, para1, idx2, para2, similarity, "identical") EXCEPT
             !.change_type = "unchanged"]
    ELSE IF AtLeast(similarity, similarity_threshold_medium)
    THEN Described(PairedRecord(idx1, para1, idx2, para2, similarity, "modified"),
                   para1.text, para2.text, fold)
    ELSE Described(PairedRecord(idx1, para1, idx2, para2, similarity, "modified"),
                   para1.text, para2.text, fold)

MappedRecord(idx1, para1, idx2, para2, fold) ==
    MappedRecordOf(idx1, para1, idx2, para2, fold,
                   _calculate_similarity(para1.text, para2.text, fold))

\* The record of idx1 paired by _find_best_match_by_content.
BestMatchRecord(idx1, para1, best, para2, fold) ==
    Described(PairedRecord(idx1, para1, best.idx, para2, best.similarity, "modified"),
              para1.text, para2.text, fold)

\* The record of idx1 when no paragraph of the second document is paired
\* with it.
UnmatchedRecord(idx1, para1, fold) ==
    [DeletedRecord(idx1, para1) EXCEPT
        !.change_description = _build_change_description(DeletedRecord(idx1, para1), fold),
        !.change_type = "deleted"]

\* One pass of the loop over paragraphs1 once the best match is known; acc
\* holds comparison_results and matched_indices_2.
ClassifySource(idx1, paras1, paras2, match_map, acc, best, fold) ==
    IF idx1 \in DOMAIN match_map
    THEN [results |-> Append(acc.results,
              MappedRecord(idx1, paras1[idx1 + 1], match_map[idx1],
                           paras2[match_map[idx1] + 1], fold)),
          matched_indices_2 |-> acc.matched_indices_2]
    ELSE IF AtLeast(best.similarity, similarity_threshold_low)
         THEN [results |-> Append(acc.results,
                   BestMatchRecord(idx1, paras1[idx1 + 1], best, paras2[best.idx + 1],
                                   fold)),
               matched_indices_2 |-> acc.matched_indices_2 \cup {best.idx}]
         ELSE [results |-> Append(acc.results, UnmatchedRecord(idx1, paras1[idx1 + 1], fold)),
               matched_indices_2 |-> acc.matched_indices_2]

\* The best match of source paragraph idx1 among the unconsumed targets.
BestMatchOf(idx1, paras1, paras2, matched_indices_2, fold) ==
    _find_best_match_by_content(
        NormalizedText(paras1[idx1 + 1].text, fold),
        [k \in 1..Len(paras2) |-> NormalizedText(paras2[k].text, fold)],
        matched_indices_2)

\* The loop over paragraphs1 from offset idx1 on.
RECURSIVE SourceLoopFrom(_, _, _, _, _, _)
SourceLoopFrom(idx1, paras1, paras2, match_map, acc, fold) ==
    IF idx1 >= Len(paras1) THEN acc
    ELSE SourceLoopFrom(idx1 + 1, paras1, paras2, match_map,
             ClassifySource(idx1, paras1, paras2, match_map, acc,
                 BestMatchOf(idx1, paras1, paras2, acc.matched_indices_2, fold), fold),
             fold)

\* The record of a target paragraph that no source paragraph is paired with,
\* before it is described.
NewRecord(idx2, para2) ==
    [index_1 |-> None, text_1 |-> None,
     index_2 |-> Some(idx2 + 1), text_2 |-> Some(para2.text),
     full_path_1 |-> None, page_1 |-> None,
     full_path_2 |-> Some(para2.full_path), page_2 |-> Some(para2.page),
     status |-> "added", similarity |-> Zero,
     differences |-> <<>>, change_description |-> <<>>,
     change_type |-> "", llm_response |-> ""]

AddedRecord(idx2, para2, fold) ==
    [NewRecord(idx2, para2) EXCEPT
        !.change_description = _build_change_description(NewRecord(idx2, para2), fold),
        !.change_type = "added"]

\* The loop over paragraphs2 putting each added record in front of the list.
RECURSIVE TargetLoopPrepending(_, _, _, _, _)
TargetLoopPrepending(idx2, paras2, matched_indices_2, results, fold) ==
    IF idx2 >= Len(paras2) THEN results
    ELSE TargetLoopPrepending(idx2 + 1, paras2, matched_indices_2,
             IF idx2 \notin matched_indices_2
             THEN <<AddedRecord(idx2, paras2[idx2 + 1], fold)>> \o results
             ELSE results, fold)

\* The loop over paragraphs2 without its test on matched_indices_2.
RECURSIVE TargetLoopAll(_, _, _, _, _)
TargetLoopAll(idx2, paras2, matched_indices_2, results, fold) ==
    IF idx2 >= Len(paras2) THEN results
    ELSE TargetLoopAll(idx2 + 1, paras2, matched_indices_2,
             Append(results, AddedRecord(idx2, paras2[idx2 + 1], fold)), fold)

\* The loop over paragraphs2 from offset idx2 on.
RECURSIVE TargetLoopFrom(_, _, _, _, _)
TargetLoopFrom(idx2, paras2, matched_indices_2, results, fold) ==
    IF idx2 >= Len(paras2) THEN results
    ELSE TargetLoopFrom(idx2 + 1, paras2, matched_indices_2,
             IF idx2 \notin matched_indices_2
             THEN Append(results, AddedRecord(idx2, paras2[idx2 + 1], fold))
             ELSE results, fold)

\* The loop over paragraphs1 started on the match state st.
SourceLoop(paras1, paras2, st, fold) ==
    SourceLoopFrom(0, paras1, paras2, st.match_map,
                   [results |-> <<>>, matched_indices_2 |-> st.matched_indices_2], fold)

\* The loop over paragraphs2 run on what the loop over paragraphs1 left.
TargetLoop(paras2, acc, fold) ==
    TargetLoopFrom(0, paras2, acc.matched_indices_2, acc.results, fold)

\* comparison_results as _compare_documents leaves it.
_compare_documents(paras1, paras2, fold) ==
    TargetLoop(paras2, SourceLoop(paras1, paras2, MatchState(paras1, paras2, fold), fold),
               fold)

----------------------------------------------------------------------------
(* Tables: DocxFile._parse_tables, Compare._find_table_cell_changes and    *)
(* Compare._compare_tables.  A table record keeps its index, rows, text    *)
(* and hash; a change record keeps its status, the two indexes, the        *)
(* similarity and the cell changes, and leaves out the names and the       *)
(* descriptions worded for the reader.                                     *)

\* sep.join(parts)
RECURSIVE JoinWith(_, _)
JoinWith(parts, sep) ==
    IF parts = <<>> THEN <<>>
    ELSE IF Len(parts) = 1 THEN parts[1]
    ELSE parts[1] \o sep \o JoinWith(Tail(parts), sep)

\* "\n".join(["\t".join(row) for row in rows])
TableText(rows) ==
    JoinWith([r \in 1..Len(rows) |-> JoinWith(rows[r], <<"\t">>)], <<"\n">>)

\* hashlib.md5(table_text.encode()).hexdigest(): two hashes are equal exactly
\* when the texts are, collisions of MD5 aside.
Md5(table_text) == [md5 |-> table_text]

\* DocxFile._parse_tables, one turn of the loop over the tables.
ParsedTables(tables, raw_rows) ==
    LET rows == [r \in 1..Len(raw_rows) |->
                    [c \in 1..Len(raw_rows[r]) |-> Strip(raw_rows[r][c])]]
    IN  Append(tables, [index |-> Len(tables) + 1,
                        rows |-> rows,
                        text |-> TableText(rows),
                        hash |-> Md5(TableText(rows))])

\* row[col_idx] if col_idx < len(row) else ""
CellAt(rows, row_idx, col_idx) ==
    IF row_idx < Len(rows) /\ col_idx < Len(rows[row_idx + 1])
    THEN rows[row_idx + 1][col_idx + 1]
    ELSE <<>>

\* len(row) for the row at row_idx, [] when the table has no such row.
RowLen(rows, row_idx) == IF row_idx < Len(rows) THEN Len(rows[row_idx + 1]) ELSE 0

Max(x, y) == IF x >= y THEN x ELSE y

\* The loop over the columns of one row, from col_idx on.
RECURSIVE CellChangesInRow(_, _, _, _, _)
CellChangesInRow(rows1, rows2, row_idx, col_idx, changes) ==
    IF col_idx >= Max(RowLen(rows1, row_idx), RowLen(rows2, row_idx)) THEN changes
    ELSE CellChangesInRow(rows1, rows2, row_idx, col_idx + 1,
             IF CellAt(rows1, row_idx, col_idx) # CellAt(rows2, row_idx, col_idx)
             THEN Append(changes, [row |-> row_idx + 1, col |-> col_idx + 1,
                                   old_value |-> CellAt(rows1, row_idx, col_idx),
                                   new_value |-> CellAt(rows2, row_idx, col_idx)])
             ELSE changes)

\* The loop over the rows, from row_idx on.
RECURSIVE CellChangesFrom(_, _, _, _)
CellChangesFrom(rows1, rows2, row_idx, changes) ==
    IF row_idx >= Max(Len(rows1), Len(rows2)) THEN changes
    ELSE CellChangesFrom(rows1, rows2, row_idx + 1,
             CellChangesInRow(rows1, rows2, row_idx, 0, changes))

_find_table_cell_changes(table1, table2) ==
    CellChangesFrom(table1.rows, table2.rows, 0, <<>>)

\* The keys of {t["hash"]: t for t in tables} in their order of insertion,
\* which is the order of the first table with each hash.
RECURSIVE HashKeys(_, _)
HashKeys(tables, keys) ==
    IF tables = <<>> THEN keys
    ELSE HashKeys(Tail(tables),
             IF \E k \in 1..Len(keys) : keys[k] = Head(tables).hash
             THEN keys ELSE Append(keys, Head(tables).hash))

\* {t["hash"]: t for t in tables}[hash_val]: the last table with the hash.
TableOfHash(tables, hash_val) ==
    tables[SetMax({k \in 1..Len(tables) : tables[k].hash = hash_val})]

HasHash(tables, hash_val) == \E k \in 1..Len(tables) : tables[k].hash = hash_val

TableRecord(status, index_1, index_2, similarity, cell_changes) ==
    [status |-> status, table_1_index |-> index_1, table_2_index |-> index_2,
     similarity |-> similarity, cell_changes |-> cell_changes]

\* The search for identical tables: the loop over the keys of tables1_map.
\* st is [changes, matched_hashes].
RECURSIVE IdenticalTablesFrom(_, _, _, _)
IdenticalTablesFrom(keys, tables1, tables2, st) ==
    IF keys = <<>> THEN st
    ELSE IdenticalTablesFrom(Tail(keys), tables1, tables2,
             IF HasHash(tables2, Head(keys))
             THEN [changes |-> Append(st.changes,
                       TableRecord("identical",
                                   Some(TableOfHash(tables1, Head(keys)).index),
                                   Some(TableOfHash(tables2, Head(keys)).index),
                                   None, None)),
                   matched_hashes |-> st.matched_hashes \cup {Head(keys)}]
             ELSE st)

table_similarity_threshold == 50

\* The inner loop over tables2 for one table of the first document, from
\* position k on; best is [match, similarity], match being a position in
\* tables2 or 0.
RECURSIVE BestTableFrom(_, _, _, _, _, _)
BestTableFrom(t1, tables2, k, matched_hashes, best, fold) ==
    IF k > Len(tables2) THEN best
    ELSE BestTableFrom(t1, tables2, k + 1, matched_hashes,
             IF tables2[k].hash \notin matched_hashes
                /\ Greater(_calculate_similarity(t1.text, tables2[k].text, fold),
                           best.similarity)
                /\ AtLeast(_calculate_similarity(t1.text, tables2[k].text, fold),
                           table_similarity_threshold)
             THEN [match |-> k,
                   similarity |-> _calculate_similarity(t1.text, tables2[k].text, fold)]
             ELSE best,
             fold)

\* One turn of the loop over tables1 for a table whose hash is not matched.
ModifiedOrDeleted(t1, tables2, st, best) ==
    IF best.match # 0
    THEN [changes |-> Append(st.changes,
              TableRecord("modified", Some(t1.index), Some(tables2[best.match].index),
                          Some(best.similarity),
                          Some(_find_table_cell_changes(t1, tables2[best.match])))),
          matched_hashes |-> st.matched_hashes \cup {tables2[best.match].hash}]
    ELSE [changes |-> Append(st.changes,
              TableRecord("deleted", Some(t1.index), None, None, None)),
          matched_hashes |-> st.matched_hashes]

\* The search for modified tables: the loop over tables1, from position k on.
RECURSIVE ModifiedTablesFrom(_, _, _, _, _)
ModifiedTablesFrom(tables1, tables2, k, st, fold) ==
    IF k > Len(tables1) THEN st
    ELSE ModifiedTablesFrom(tables1, tables2, k + 1,
             IF tables1[k].hash \notin st.matched_hashes
             THEN ModifiedOrDeleted(tables1[k], tables2, st,
                      BestTableFrom(tables1[k], tables2, 1, st.matched_hashes,
                                    [match |-> 0, similarity |-> Zero], fold))
             ELSE st,
             fold)

\* The search for added tables: the loop over tables2, from position k on.
RECURSIVE AddedTablesFrom(_, _, _, _)
AddedTablesFrom(tables2, k, matched_hashes, changes) ==
    IF k > Len(tables2) THEN changes
    ELSE AddedTablesFrom(tables2, k + 1, matched_hashes,
             IF tables2[k].hash \notin matched_hashes
             THEN Append(changes,
                      TableRecord("added", None, Some(tables2[k].index), None, None))
             ELSE changes)

AddedTables(tables2, st) == AddedTablesFrom(tables2, 1, st.matched_hashes, st.changes)

_compare_tables(tables1, tables2, fold) ==
    AddedTables(tables2,
        ModifiedTablesFrom(tables1, tables2, 1,
            IdenticalTablesFrom(HashKeys(tables1, <<>>), tables1, tables2,
                                [changes |-> <<>>, matched_hashes |-> {}]),
            fold))

----------------------------------------------------------------------------
(* Images: DocxFile._parse_images and Compare._compare_images.  An image   *)
(* record keeps its index and hash; a change record keeps its status and   *)
(* the two indexes, and leaves out the names and the descriptions.         *)

\* DocxFile._parse_images, one image: the hash is the MD5 of the blob.
ParsedImages(images, blob) ==
    Append(images, [index |-> Len(images) + 1, hash |-> Md5(blob)])

ImageRecord(status, index_1, index_2) ==
    [status |-> status, image_1_index |-> index_1, image_2_index |-> index_2]

\* The search for identical images: the loop over the keys of images1_map.
RECURSIVE IdenticalImagesFrom(_, _, _, _)
IdenticalImagesFrom(keys, images1, images2, st) ==
    IF keys = <<>> THEN st
    ELSE IdenticalImagesFrom(Tail(keys), images1, images2,
             IF HasHash(images2, Head(keys))
             THEN [changes |-> Append(st.changes,
                       ImageRecord("identical",
                                   Some(TableOfHash(images1, Head(keys)).index),
                                   Some(TableOfHash(images2, Head(keys)).index))),
                   matched_hashes |-> st.matched_hashes \cup {Head(keys)}]
             ELSE st)

\* The search for deleted images: the loop over images1, from position k on.
RECURSIVE DeletedImagesFrom(_, _, _, _)
DeletedImagesFrom(images1, k, matched_hashes, changes) ==
    IF k > Len(images1) THEN changes
    ELSE DeletedImagesFrom(images1, k + 1, matched_hashes,
             IF images1[k].hash \notin matched_hashes
             THEN Append(changes, ImageRecord("deleted", Some(images1[k].index), None))
             ELSE changes)

\* The search for added images: the loop over images2, from position k on.
RECURSIVE AddedImagesFrom(_, _, _, _)
AddedImagesFrom(images2, k, matched_hashes, changes) ==
    IF k > Len(images2) THEN changes
    ELSE AddedImagesFrom(images2, k + 1, matched_hashes,
             IF images2[k].hash \notin matched_hashes
             THEN Append(changes, ImageRecord("added", None, Some(images2[k].index)))
             ELSE changes)

\* The positions of images2 the inner loop of the last search stops at for
\* one image of the first document: unmatched hash, same index.
SameIndexCandidates(img1, images2, matched_hashes) ==
    {j \in 1..Len(images2) :
        images2[j].hash \notin matched_hashes /\ images2[j].index = img1.index}

\* The search for modified images: the loop over images1, from position k on.
RECURSIVE ModifiedImagesFrom(_, _, _, _)
ModifiedImagesFrom(images1, images2, k, st) ==
    IF k > Len(images1) THEN st
    ELSE ModifiedImagesFrom(images1, images2, k + 1,
             IF images1[k].hash \notin st.matched_hashes
                /\ SameIndexCandidates(images1[k], images2, st.matched_hashes) # {}
             THEN LET j == SetMin(SameIndexCandidates(images1[k], images2,
                                                      st.matched_hashes))
                  IN  [changes |-> Append(st.changes,
                           ImageRecord("modified", Some(images1[k].index),
                                       Some(images2[j].index))),
                       matched_hashes |-> st.matched_hashes
                                            \cup {images1[k].hash, images2[j].hash}]
             ELSE st)

DeletedAndAddedImages(images1, images2, st) ==
    [changes |-> AddedImagesFrom(images2, 1, st.matched_hashes,
                     DeletedImagesFrom(images1, 1, st.matched_hashes, st.changes)),
     matched_hashes |-> st.matched_hashes]

_compare_images(images1, images2) ==
    ModifiedImagesFrom(images1, images2, 1,
        DeletedAndAddedImages(images1, images2,
            IdenticalImagesFrom(HashKeys(images1, <<>>), images1, images2,
                                [changes |-> <<>>, matched_hashes |-> {}]))).changes

----------------------------------------------------------------------------
(* The enrichment by the language model, Compare._analyze_changes_with_llm,*)
(* and Compare.get_statistics.                                             *)

\* The adapters a comparison is given: none, one that is switched off, one
\* whose every request fails, one whose requests are answered.
Adapters == {"none", "disabled", "failing", "answering"}

\* self.llm_adapter and self.llm_adapter.is_enabled()
IsEnabled(adapter) == adapter \in {"failing", "answering"}

LlmReply == "reply"

\* LLMAdapter.analyze_changes: the empty string when every attempt failed,
\* the text of the answer otherwise.
analyze_changes(adapter, old_text, new_text) ==
    IF adapter = "answering" THEN LlmReply ELSE ""

\* result.get("text_1", "") or ""
TextOrEmpty(field) == IF field = None THEN <<>> ELSE field[1]

\* A variant that keeps the filtered list of changed records as the result
\* list.
AnalyzeKeepingChangedOnly(results, adapter) ==
    SelectSeq([k \in 1..Len(results) |->
                  IF results[k].status \in {"modified", "added", "deleted"}
                  THEN [results[k] EXCEPT
                           !.llm_response = analyze_changes(adapter,
                               TextOrEmpty(results[k].text_1),
                               TextOrEmpty(results[k].text_2))]
                  ELSE results[k]],
              LAMBDA r : r.status \in {"modified", "added", "deleted"})

\* One pass of the loop over changed_results: the record after it.
AnalyzedRecord(r, adapter) ==
    IF \/ r.status = "modified" /\ TextOrEmpty(r.text_1) # <<>> /\ TextOrEmpty(r.text_2) # <<>>
       \/ r.status = "added" /\ TextOrEmpty(r.text_2) # <<>>
       \/ r.status = "deleted" /\ TextOrEmpty(r.text_1) # <<>>
    THEN [r EXCEPT !.llm_response =
             analyze_changes(adapter,
                             IF r.status = "added" THEN <<>> ELSE TextOrEmpty(r.text_1),
                             IF r.status = "deleted" THEN <<>> ELSE TextOrEmpty(r.text_2))]
    ELSE r

\* The records of changed_results are the records of comparison_results
\* themselves, so the loop updates the result list in place.
_analyze_changes_with_llm(results, adapter) ==
    IF ~IsEnabled(adapter) THEN results
    ELSE [k \in 1..Len(results) |->
             IF results[k].status \in {"modified", "added", "deleted"}
             THEN AnalyzedRecord(results[k], adapter)
             ELSE results[k]]

\* sum(1 for r in results if r["status"] == status)
CountStatus(results, status) ==
    Cardinality({k \in 1..Len(results) : results[k].status = status})

\* A variant that gives the share as a fraction of 1.
PercentAsShare(count, total) == IF total > 0 THEN Frac(count, total) ELSE Zero

\* (count / total * 100) if total > 0 else 0, as an exact fraction.
Percent(count, total) == IF total > 0 THEN Frac(count * 100, total) ELSE Zero

get_statistics(results, tables1, tables2, tchanges, images1, images2, ichanges) ==
    [total |-> Len(results),
     identical |-> CountStatus(results, "identical"),
     modified |-> CountStatus(results, "modified"),
     added |-> CountStatus(results, "added"),
     deleted |-> CountStatus(results, "deleted"),
     identical_percent |-> Percent(CountStatus(results, "identical"), Len(results)),
     modified_percent |-> Percent(CountStatus(results, "modified"), Len(results)),
     added_percent |-> Percent(CountStatus(results, "added"), Len(results)),
     deleted_percent |-> Percent(CountStatus(results, "deleted"), Len(results)),
     tables_total_1 |-> Len(tables1),
     tables_total_2 |-> Len(tables2),
     tables_changed |-> Cardinality({k \in 1..Len(tchanges) :
                                       tchanges[k].status # "identical"}),
     images_total_1 |-> Len(images1),
     images_total_2 |-> Len(images2),
     images_changed |-> Cardinality({k \in 1..Len(ichanges) :
                                       ichanges[k].status # "identical"}),
     llm_analyzed |-> Cardinality({k \in 1..Len(results) :
                                     results[k].llm_response # ""})]

\* exceptions.ComparisonError(reason): the reason is kept and worded into
\* the message.
ComparisonError(reason) ==
    [type |-> "ComparisonError", reason |-> reason,
     message |-> IF reason = "" THEN <<"comparison failed">>
                 ELSE <<"comparison failed", ". reason: ", reason>>]

----------------------------------------------------------------------------
(* Bounds and inputs of the normalization runs.                            *)

MaxLen == 4

Alphabet == {"a", "B"} \cup Whitespace

RECURSIVE StringsOfLen(_)
StringsOfLen(n) ==
    IF n = 0 THEN {<<>>}
    ELSE {<<c>> \o s : c \in Alphabet, s \in StringsOfLen(n - 1)}

Strings == UNION {StringsOfLen(n) : n \in 0..MaxLen}

----------------------------------------------------------------------------
(* Normalization runs: a text is normalized, and the result normalized     *)
(* again.                                                                  *)

InitNormalize ==
    /\ normalize_case \in BOOLEAN
    /\ text \in Strings
    /\ out = <<>>
    /\ paragraphs1 = <<>>
    /\ paragraphs2 = <<>>
    /\ comparison_results = <<>>
    /\ pc = "normalize"
    /\ returned = <<>>
    /\ raised = <<>>
    /\ llm_adapter = "none"
    /\ image_changes = <<>>
    /\ file2_images = <<>>
    /\ file1_images = <<>>
    /\ table_changes = <<>>
    /\ file2_tables = <<>>
    /\ file1_tables = <<>>
    /\ second_text = <<>>

NormalizeText ==
    /\ pc = "normalize"
    /\ Len(out) < 2
    /\ out' = Append(out, _normalize_text(IF out = <<>> THEN text ELSE out[Len(out)],
                                          normalize_case))
    /\ UNCHANGED <<normalize_case, text, paragraphs1, paragraphs2, comparison_results, pc,
                 second_text,
                 file1_tables,
                 file2_tables,
                 table_changes,
                 file1_images,
                 file2_images,
                 image_changes,
                 llm_adapter,
                 raised,
                 returned>>

NextNormalize == NormalizeText

SpecNormalize == InitNormalize /\ [][NextNormalize]_vars

----------------------------------------------------------------------------
(* Bounds and inputs of the comparison runs.                               *)

MaxParas == 3        \* paragraphs per document, documents parsed freely
MaxPermParas == 4    \* paragraphs per document, document 2 a reordering of document 1

\* para.text values: the pool, and texts that need stripping or vanish.
RawTexts == TextPool \cup {<<>>, <<" ", NBSP>>, <<" ">> \o XY \o <<"\n">>}

chars_per_page == 2000

\* len(text) summed over the paragraphs.
RECURSIVE TotalChars(_)
TotalChars(paragraphs) ==
    IF paragraphs = <<>> THEN 0
    ELSE Len(Head(paragraphs).text) + TotalChars(Tail(paragraphs))

\* paragraph_data of a paragraph that follows the given ones.  The
\* documents of the runs have no headings: hierarchy_stack stays empty and
\* _build_full_path returns "".
ParagraphData(paragraphs, t) ==
    [text |-> t, full_path |-> <<>>,
     page |-> Max(1, (TotalChars(paragraphs) + Len(t)) \div chars_per_page + 1)]

RECURSIVE ParagraphLists(_)
ParagraphLists(n) ==
    IF n = 0 THEN {<<>>}
    ELSE LET shorter == ParagraphLists(n - 1)
         IN  shorter \cup {Append(ps, ParagraphData(ps, t)) : ps \in shorter, t \in TextPool}

Reorderings(ps) ==
    {[k \in 1..Len(ps) |-> ps[f[k]]] : f \in Permutations(1..Len(ps))}

----------------------------------------------------------------------------
(* A run: DocxFile parses file 1, then file 2, and Compare.__init__        *)
(* compares the paragraphs.                                                *)

Init ==
    /\ normalize_case = FALSE
    /\ text = <<>>
    /\ out = <<>>
    /\ paragraphs1 = <<>>
    /\ paragraphs2 = <<>>
    /\ comparison_results = <<>>
    /\ pc = "parse1"
    /\ returned = <<>>
    /\ raised = <<>>
    /\ llm_adapter = "none"
    /\ image_changes = <<>>
    /\ file2_images = <<>>
    /\ file1_images = <<>>
    /\ table_changes = <<>>
    /\ file2_tables = <<>>
    /\ file1_tables = <<>>
    /\ second_text = <<>>

\* DocxFile._parse_document, one turn of the loop over the paragraphs.
ParsedParagraphs(paragraphs, raw) ==
    LET t == Strip(raw)
    IN  IF t = <<>> THEN paragraphs ELSE Append(paragraphs, ParagraphData(paragraphs, t))

ParseParagraph1(raw) ==
    /\ pc = "parse1"
    /\ Len(paragraphs1) < MaxParas
    /\ paragraphs1' = ParsedParagraphs(paragraphs1, raw)
    /\ UNCHANGED <<normalize_case, text, out, paragraphs2, comparison_results, pc,
                 second_text,
                 file1_tables,
                 file2_tables,
                 table_changes,
                 file1_images,
                 file2_images,
                 image_changes,
                 llm_adapter,
                 raised,
                 returned>>

EndOfFile1 ==
    /\ pc = "parse1"
    /\ pc' = "parse2"
    /\ UNCHANGED <<normalize_case, text, out, paragraphs1, paragraphs2, comparison_results,
                 second_text,
                 file1_tables,
                 file2_tables,
                 table_changes,
                 file1_images,
                 file2_images,
                 image_changes,
                 llm_adapter,
                 raised,
                 returned>>

ParseParagraph2(raw) ==
    /\ pc = "parse2"
    /\ Len(paragraphs2) < MaxParas
    /\ paragraphs2' = ParsedParagraphs(paragraphs2, raw)
    /\ UNCHANGED <<normalize_case, text, out, paragraphs1, comparison_results, pc,
                 second_text,
                 file1_tables,
                 file2_tables,
                 table_changes,
                 file1_images,
                 file2_images,
                 image_changes,
                 llm_adapter,
                 raised,
                 returned>>

EndOfFile2 ==
    /\ pc = "parse2"
    /\ pc' = "compare"
    /\ UNCHANGED <<normalize_case, text, out, paragraphs1, paragraphs2, comparison_results,
                 second_text,
                 file1_tables,
                 file2_tables,
                 table_changes,
                 file1_images,
                 file2_images,
                 image_changes,
                 llm_adapter,
                 raised,
                 returned>>

CompareDocuments ==
    /\ pc = "compare"
    /\ comparison_results' = _compare_documents(paragraphs1, paragraphs2, normalize_case)
    /\ pc' = "done"
    /\ UNCHANGED <<normalize_case, text, out, paragraphs1, paragraphs2,
                 second_text,
                 file1_tables,
                 file2_tables,
                 table_changes,
                 file1_images,
                 file2_images,
                 image_changes,
                 llm_adapter,
                 raised,
                 returned>>

Next ==
    \/ \E raw \in RawTexts : ParseParagraph1(raw)
    \/ EndOfFile1
    \/ \E raw \in RawTexts : ParseParagraph2(raw)
    \/ EndOfFile2
    \/ CompareDocuments

Spec == Init /\ [][Next]_vars

\* Runs on two parsed documents of which the second holds the paragraphs of
\* the first in another order.
InitPermuted ==
    /\ normalize_case = FALSE
    /\ text = <<>>
    /\ out = <<>>
    /\ paragraphs1 \in ParagraphLists(MaxPermParas)
    /\ paragraphs2 \in Reorderings(paragraphs1)
    /\ comparison_results = <<>>
    /\ pc = "compare"
    /\ returned = <<>>
    /\ raised = <<>>
    /\ llm_adapter = "none"
    /\ image_changes = <<>>
    /\ file2_images = <<>>
    /\ file1_images = <<>>
    /\ table_changes = <<>>
    /\ file2_tables = <<>>
    /\ file1_tables = <<>>
    /\ second_text = <<>>

NextPermuted == CompareDocuments

SpecPermuted == InitPermuted /\ [][NextPermuted]_vars

\* Runs on documents whose paragraphs share fingerprints.
MaxMatchParas == 3   \* paragraphs per document of a matching run

MatchTexts == {XY, Wide, WideR, WideQ}

RECURSIVE MatchParagraphLists(_)
MatchParagraphLists(n) ==
    IF n = 0 THEN {<<>>}
    ELSE LET shorter == MatchParagraphLists(n - 1)
         IN  shorter \cup {Append(ps, ParagraphData(ps, t)) : ps \in shorter, t \in MatchTexts}

InitMatching ==
    /\ normalize_case = FALSE
    /\ text = <<>>
    /\ second_text = <<>>
    /\ out = <<>>
    /\ paragraphs1 \in MatchParagraphLists(MaxMatchParas)
    /\ paragraphs2 \in MatchParagraphLists(MaxMatchParas)
    /\ comparison_results = <<>>
    /\ file1_tables = <<>>
    /\ file2_tables = <<>>
    /\ table_changes = <<>>
    /\ file1_images = <<>>
    /\ file2_images = <<>>
    /\ image_changes = <<>>
    /\ llm_adapter = "none"
    /\ raised = <<>>
    /\ returned = <<>>
    /\ pc = "compare"

NextMatching == CompareDocuments

SpecMatching == InitMatching /\ [][NextMatching]_vars

----------------------------------------------------------------------------
(* Calls on a pair of texts: _calculate_similarity and                     *)
(* _determine_change_type.                                                 *)

MaxWords == 3        \* words per text of a pair

Vocabulary == {<<"a">>, <<"b">>, <<"B">>, <<"c">>, <<"d">>}

RECURSIVE WordLists(_)
WordLists(n) ==
    IF n = 0 THEN {<<>>}
    ELSE LET shorter == WordLists(n - 1)
         IN  shorter \cup {Append(ws, w) : ws \in shorter, w \in Vocabulary}

\* The words joined by one space; two words also joined by a line break, by
\* two spaces, and with a space at each end; and a text of one space.
PairTexts ==
    {Join(ws) : ws \in WordLists(MaxWords)}
        \cup {ws[1] \o sep \o ws[2] : ws \in {v \in WordLists(2) : Len(v) = 2},
                                        sep \in {<<"\n">>, <<" ", " ">>}}
        \cup {<<" ">> \o w \o <<" ">> : w \in Vocabulary}
        \cup {<<" ">>}

InitPair ==
    /\ normalize_case \in BOOLEAN
    /\ text \in PairTexts
    /\ second_text \in PairTexts
    /\ out = <<>>
    /\ paragraphs1 = <<>>
    /\ paragraphs2 = <<>>
    /\ comparison_results = <<>>
    /\ pc = "pair"
    /\ returned = <<>>
    /\ raised = <<>>
    /\ llm_adapter = "none"
    /\ image_changes = <<>>
    /\ file2_images = <<>>
    /\ file1_images = <<>>
    /\ table_changes = <<>>
    /\ file2_tables = <<>>
    /\ file1_tables = <<>>

CalculateSimilarity ==
    /\ pc = "pair"
    /\ out' = <<_calculate_similarity(text, second_text, normalize_case)>>
    /\ pc' = "similarity"
    /\ UNCHANGED <<normalize_case, text, second_text, paragraphs1, paragraphs2,
                   comparison_results,
                 file1_tables,
                 file2_tables,
                 table_changes,
                 file1_images,
                 file2_images,
                 image_changes,
                 llm_adapter,
                 raised,
                 returned>>

DetermineChangeType ==
    /\ pc = "pair"
    /\ out' = <<_determine_change_type(text, second_text, normalize_case)>>
    /\ pc' = "change_type"
    /\ UNCHANGED <<normalize_case, text, second_text, paragraphs1, paragraphs2,
                   comparison_results,
                 file1_tables,
                 file2_tables,
                 table_changes,
                 file1_images,
                 file2_images,
                 image_changes,
                 llm_adapter,
                 raised,
                 returned>>

NextPair == CalculateSimilarity \/ DetermineChangeType

SpecPair == InitPair /\ [][NextPair]_vars

----------------------------------------------------------------------------
(* Fingerprint runs: the fingerprints of two paragraphs of the second      *)
(* document are computed and indexed.                                      *)

MaxFpWords == 7      \* words per text of a fingerprint run

FpVocabulary == {<<"a">>, <<"B">>}

RECURSIVE FpWordLists(_)
FpWordLists(n) ==
    IF n = 0 THEN {<<>>}
    ELSE LET shorter == FpWordLists(n - 1)
         IN  shorter \cup {Append(ws, w) : ws \in shorter, w \in FpVocabulary}

InitFingerprint ==
    /\ normalize_case \in BOOLEAN
    /\ \E ws \in FpWordLists(MaxFpWords) :
          /\ text \in {Join(ws), <<" ">> \o JoinWith(ws, <<"\n", " ">>) \o <<"\t">>}
          /\ second_text \in {Join(ws), <<"\t">>, <<"a">>, Join(ws \o <<<<"a">>>>)}
    /\ out = <<>>
    /\ paragraphs1 = <<>>
    /\ paragraphs2 = <<>>
    /\ comparison_results = <<>>
    /\ file1_tables = <<>>
    /\ file2_tables = <<>>
    /\ table_changes = <<>>
    /\ file1_images = <<>>
    /\ file2_images = <<>>
    /\ image_changes = <<>>
    /\ llm_adapter = "none"
    /\ raised = <<>>
    /\ returned = <<>>
    /\ pc = "fingerprint"

\* fingerprints2[0] = self._get_text_fingerprint(text)
GetTextFingerprint ==
    /\ pc = "fingerprint"
    /\ out' = <<_get_text_fingerprint(text, normalize_case)>>
    /\ pc' = "first"
    /\ UNCHANGED <<normalize_case, text, second_text, paragraphs1, paragraphs2,
                   comparison_results, file1_tables, file2_tables, table_changes,
                   file1_images, file2_images, image_changes, llm_adapter, raised,
                   returned>>

\* fingerprints2[1] = self._get_text_fingerprint(second_text)
GetSecondFingerprint ==
    /\ pc = "first"
    /\ out' = Append(out, _get_text_fingerprint(second_text, normalize_case))
    /\ pc' = "second"
    /\ UNCHANGED <<normalize_case, text, second_text, paragraphs1, paragraphs2,
                   comparison_results, file1_tables, file2_tables, table_changes,
                   file1_images, file2_images, image_changes, llm_adapter, raised,
                   returned>>

\* The index of the two fingerprints.
BuildFingerprintIndex ==
    /\ pc = "second"
    /\ out' = Append(out, fingerprint_index2(<<out[1], out[2]>>))
    /\ pc' = "indexed"
    /\ UNCHANGED <<normalize_case, text, second_text, paragraphs1, paragraphs2,
                   comparison_results, file1_tables, file2_tables, table_changes,
                   file1_images, file2_images, image_changes, llm_adapter, raised,
                   returned>>

NextFingerprint == GetTextFingerprint \/ GetSecondFingerprint \/ BuildFingerprintIndex

SpecFingerprint == InitFingerprint /\ [][NextFingerprint]_vars

----------------------------------------------------------------------------
(* Difference runs: the differences of two texts made of sentences.        *)

MaxSentences == 6    \* sentences per text of a difference run

\* A sentence of two words of eight letters c.
SentenceOf(c) == Join(<<[k \in 1..8 |-> c], [k \in 1..8 |-> c]>>)

RECURSIVE SentenceLists(_)
SentenceLists(n) ==
    IF n = 0 THEN {<<>>}
    ELSE LET shorter == SentenceLists(n - 1)
         IN  shorter \cup {Append(ss, SentenceOf(c)) : ss \in shorter, c \in {"a", "B"}}

\* The sentences in a row, the first one closed by end and gap, the others
\* by a full stop and a space.
SentenceText(ss, end, gap) ==
    IF Len(ss) < 2 THEN JoinWith(ss, <<".", " ">>)
    ELSE ss[1] \o <<end>> \o gap \o JoinWith(Tail(ss), <<".", " ">>)

MaxDiffParas == 2    \* paragraphs per document of a difference run

\* A call of _get_differences on two texts.  The three calls of the code
\* pass the texts of a pair it has just recorded as modified, and these
\* differ.
InitTexts ==
    /\ normalize_case \in BOOLEAN
    /\ text \in {SentenceText([k \in 1..n |-> SentenceOf(c)], ".", <<" ">>) :
                    n \in 0..MaxSentences, c \in {"a", "B"}}
    /\ second_text \in {SentenceText(ss, close[1], close[2]) :
                           ss \in SentenceLists(MaxSentences),
                           close \in {<<".", <<" ">>>>, <<".", <<" ", "\n">>>>,
                                      <<"!", <<" ">>>>}}
    /\ text # second_text
    /\ paragraphs1 = <<>>
    /\ paragraphs2 = <<>>
    /\ pc = "texts"

\* A comparison of two parsed documents, which calls _get_differences on the
\* pairs it finds modified.
InitDocuments ==
    /\ normalize_case \in BOOLEAN
    /\ text = <<>>
    /\ second_text = <<>>
    /\ paragraphs1 \in ParagraphLists(MaxDiffParas)
    /\ paragraphs2 \in ParagraphLists(MaxDiffParas)
    /\ pc = "compare"

InitDifferences ==
    /\ InitTexts \/ InitDocuments
    /\ out = <<>>
    /\ comparison_results = <<>>
    /\ file1_tables = <<>>
    /\ file2_tables = <<>>
    /\ table_changes = <<>>
    /\ file1_images = <<>>
    /\ file2_images = <<>>
    /\ image_changes = <<>>
    /\ llm_adapter = "none"
    /\ raised = <<>>
    /\ returned = <<>>

GetDifferences ==
    /\ pc = "texts"
    /\ out' = <<_get_differences(text, second_text, normalize_case)>>
    /\ pc' = "differences"
    /\ UNCHANGED <<normalize_case, text, second_text, paragraphs1, paragraphs2,
                   comparison_results, file1_tables, file2_tables, table_changes,
                   file1_images, file2_images, image_changes, llm_adapter, raised,
                   returned>>

NextDifferences == GetDifferences \/ CompareDocuments

SpecDifferences == InitDifferences /\ [][NextDifferences]_vars

----------------------------------------------------------------------------
(* Bounds and inputs of the table runs.                                    *)

MaxRows == 2         \* rows per table of the grids
MaxCols == 2         \* cells per row of the grids
MaxTables == 2       \* tables per document
LongTableRows == 41  \* rows of the long one-column table

Cell1000 == <<"1", "0", "0", "0">>
Cell1500 == <<"1", "5", "0", "0">>

CellPool == {<<>>, Cell1000, Cell1500}

RECURSIVE SeqsUpTo(_, _)
SeqsUpTo(S, n) ==
    IF n = 0 THEN {<<>>}
    ELSE LET shorter == SeqsUpTo(S, n - 1)
         IN  shorter \cup {Append(q, x) : q \in shorter, x \in S}

\* Every grid of 1..MaxRows rows of 1..MaxCols cells, rows of unequal length
\* included, as python-docx yields for merged or missing cells.
GridRows == SeqsUpTo(SeqsUpTo(CellPool, MaxCols) \ {<<>>}, MaxRows) \ {<<>>}

\* A one-column table of figures, long enough for its text to reach 200
\* characters; the second version differs in row 2 only.
LongRows(second) ==
    [r \in 1..LongTableRows |->
        <<IF r \in {3, 4, 5} \/ (r = 2 /\ second) THEN Cell1500 ELSE Cell1000>>]

\* Raw tables of the documents with several tables: cells with blanks
\* around them, a repeated table, rows of unequal length.
RawTablePool ==
    { <<<<Cell1000>>>>,
      <<<<<<" ">> \o Cell1000 \o <<" ">>>>>>,
      <<<<Cell1500>>>>,
      <<<<Cell1000, Cell1500>>, <<Cell1000>>>>,
      <<<<Cell1000, Cell1500>>, <<Cell1500>>>> }

RECURSIVE ParseAll(_, _)
ParseAll(raw_tables, tables) ==
    IF raw_tables = <<>> THEN tables
    ELSE ParseAll(Tail(raw_tables), ParsedTables(tables, Head(raw_tables)))

TableInputs ==
    {<<ParseAll(raws1, <<>>), ParseAll(raws2, <<>>)>> :
        raws1 \in SeqsUpTo(RawTablePool, MaxTables),
        raws2 \in SeqsUpTo(RawTablePool, MaxTables)}
    \cup {<<ParseAll(<<rows1>>, <<>>), ParseAll(<<rows2>>, <<>>)>> :
        rows1 \in GridRows, rows2 \in GridRows}
    \cup {<<ParseAll(<<LongRows(FALSE)>>, <<>>), ParseAll(<<LongRows(TRUE)>>, <<>>)>>}

InitTables ==
    /\ normalize_case = FALSE
    /\ text = <<>>
    /\ second_text = <<>>
    /\ out = <<>>
    /\ paragraphs1 = <<>>
    /\ paragraphs2 = <<>>
    /\ comparison_results = <<>>
    /\ \E input \in TableInputs :
          /\ file1_tables = input[1]
          /\ file2_tables = input[2]
    /\ table_changes = <<>>
    /\ file1_images = <<>>
    /\ file2_images = <<>>
    /\ image_changes = <<>>
    /\ llm_adapter = "none"
    /\ raised = <<>>
    /\ returned = <<>>
    /\ pc = "tables"

CompareTables ==
    /\ pc = "tables"
    /\ table_changes' = _compare_tables(file1_tables, file2_tables, normalize_case)
    /\ pc' = "tables_compared"
    /\ UNCHANGED <<normalize_case, text, second_text, out, paragraphs1, paragraphs2,
                   comparison_results, file1_tables, file2_tables,
                 file1_images,
                 file2_images,
                 image_changes,
                 llm_adapter,
                 raised,
                 returned>>

\* A call of _find_table_cell_changes on the first table of each document.
FindTableCellChanges ==
    /\ pc = "tables"
    /\ file1_tables # <<>>
    /\ file2_tables # <<>>
    /\ out' = <<_find_table_cell_changes(file1_tables[1], file2_tables[1])>>
    /\ pc' = "cell_changes"
    /\ UNCHANGED <<normalize_case, text, second_text, paragraphs1, paragraphs2,
                   comparison_results, file1_tables, file2_tables, table_changes,
                 file1_images,
                 file2_images,
                 image_changes,
                 llm_adapter,
                 raised,
                 returned>>

NextTables == CompareTables \/ FindTableCellChanges

SpecTables == InitTables /\ [][NextTables]_vars

----------------------------------------------------------------------------
(* Bounds and inputs of the whole runs: Compare.__init__ followed by a     *)
(* call of get_statistics.                                                 *)

MaxRunParas == 2     \* paragraphs per document of a whole run

RunTexts == {XY, XnY, XZ, LongF}

RECURSIVE RunParagraphLists(_)
RunParagraphLists(n) ==
    IF n = 0 THEN {<<>>}
    ELSE LET shorter == RunParagraphLists(n - 1)
         IN  shorter \cup {Append(ps, ParagraphData(ps, t)) : ps \in shorter, t \in RunTexts}

RECURSIVE ParseAllImages(_, _)
ParseAllImages(blobs, images) ==
    IF blobs = <<>> THEN images
    ELSE ParseAllImages(Tail(blobs), ParsedImages(images, Head(blobs)))

\* The tables and images of the two documents: none at all, or two tables
\* against one and two images against two.
RunMedia ==
    { [tables1 |-> <<>>, tables2 |-> <<>>, images1 |-> <<>>, images2 |-> <<>>],
      [tables1 |-> ParseAll(<<<<<<Cell1000, Cell1500>>, <<Cell1000>>>>, <<<<Cell1500>>>>>>, <<>>),
       tables2 |-> ParseAll(<<<<<<Cell1000, Cell1500>>, <<Cell1500>>>>>>, <<>>),
       images1 |-> ParseAllImages(<<"p", "q">>, <<>>),
       images2 |-> ParseAllImages(<<"r", "q">>, <<>>)] }

\* The exceptions a phase raises, each with its type, its str() and the
\* method its traceback starts in: the KeyError of a record without the key
\* the phase reads, and the KeyError of str.format on a prompt template with
\* a placeholder of its own.
PhaseError(method) ==
    [type |-> "KeyError",
     str |-> IF method = "_analyze_changes_with_llm" THEN "'placeholder'" ELSE "'text'",
     raised_in |-> method]

InitRun ==
    /\ normalize_case = FALSE
    /\ text = <<>>
    /\ second_text = <<>>
    /\ out = <<>>
    /\ paragraphs1 \in RunParagraphLists(MaxRunParas)
    /\ paragraphs2 \in RunParagraphLists(MaxRunParas)
    /\ comparison_results = <<>>
    /\ \E media \in RunMedia :
          /\ file1_tables = media.tables1
          /\ file2_tables = media.tables2
          /\ file1_images = media.images1
          /\ file2_images = media.images2
    /\ table_changes = <<>>
    /\ image_changes = <<>>
    /\ llm_adapter \in Adapters
    /\ raised = <<>>
    /\ returned = <<>>
    /\ pc = "start"

\* The lists a phase has filled when it raises: some of the records it
\* would have appended.
PartialOf(full) == {SubSeq(full, 1, n) : n \in 0..Len(full)}

\* A variant of the handler that lets the exception through as it is.
RaisedUnwrapped(e) == Some([error |-> e, context |-> None])

\* except Exception as e: raise ComparisonError(str(e)); the new exception
\* keeps the one it was raised from as its context.
Raised(e) == Some([error |-> ComparisonError(e.str), context |-> Some(e)])

RunCompareDocuments ==
    /\ pc = "start"
    /\ comparison_results' = _compare_documents(paragraphs1, paragraphs2, normalize_case)
    /\ pc' = "paragraphs"
    /\ UNCHANGED <<normalize_case, text, second_text, out, paragraphs1, paragraphs2,
                   file1_tables, file2_tables, table_changes, file1_images,
                   file2_images, image_changes, llm_adapter, raised, returned>>

\* An exception inside _compare_documents.
RaiseInCompareDocuments ==
    /\ pc = "start"
    /\ comparison_results' \in
           PartialOf(_compare_documents(paragraphs1, paragraphs2, normalize_case))
    /\ raised' = Raised(PhaseError("_compare_documents"))
    /\ pc' = "raised"
    /\ UNCHANGED <<normalize_case, text, second_text, out, paragraphs1, paragraphs2,
                   file1_tables, file2_tables, table_changes, file1_images,
                   file2_images, image_changes, llm_adapter, returned>>

RunCompareTables ==
    /\ pc = "paragraphs"
    /\ table_changes' = _compare_tables(file1_tables, file2_tables, normalize_case)
    /\ pc' = "tables"
    /\ UNCHANGED <<normalize_case, text, second_text, out, paragraphs1, paragraphs2,
                   comparison_results, file1_tables, file2_tables, file1_images,
                   file2_images, image_changes, llm_adapter, raised, returned>>

\* An exception inside _compare_tables.
RaiseInCompareTables ==
    /\ pc = "paragraphs"
    /\ table_changes' \in
           PartialOf(_compare_tables(file1_tables, file2_tables, normalize_case))
    /\ raised' = Raised(PhaseError("_compare_tables"))
    /\ pc' = "raised"
    /\ UNCHANGED <<normalize_case, text, second_text, out, paragraphs1, paragraphs2,
                   comparison_results, file1_tables, file2_tables, file1_images,
                   file2_images, image_changes, llm_adapter, returned>>

RunCompareImages ==
    /\ pc = "tables"
    /\ image_changes' = _compare_images(file1_images, file2_images)
    /\ pc' = "images"
    /\ UNCHANGED <<normalize_case, text, second_text, out, paragraphs1, paragraphs2,
                   comparison_results, file1_tables, file2_tables, table_changes,
                   file1_images, file2_images, llm_adapter, raised, returned>>

\* An exception inside _compare_images.
RaiseInCompareImages ==
    /\ pc = "tables"
    /\ image_changes' \in PartialOf(_compare_images(file1_images, file2_images))
    /\ raised' = Raised(PhaseError("_compare_images"))
    /\ pc' = "raised"
    /\ UNCHANGED <<normalize_case, text, second_text, out, paragraphs1, paragraphs2,
                   comparison_results, file1_tables, file2_tables, table_changes,
                   file1_images, file2_images, llm_adapter, returned>>

RunAnalyzeChangesWithLlm ==
    /\ pc = "images"
    /\ IsEnabled(llm_adapter)
    /\ comparison_results' = _analyze_changes_with_llm(comparison_results, llm_adapter)
    /\ pc' = "llm"
    /\ UNCHANGED <<normalize_case, text, second_text, out, paragraphs1, paragraphs2,
                   file1_tables, file2_tables, table_changes, file1_images,
                   file2_images, image_changes, llm_adapter, raised, returned>>

\* An exception inside _analyze_changes_with_llm, after the records before
\* position n were analysed.
RaiseInAnalyzeChangesWithLlm ==
    /\ pc = "images"
    /\ IsEnabled(llm_adapter)
    /\ \E n \in 0..Len(comparison_results) :
          comparison_results' =
              SubSeq(_analyze_changes_with_llm(comparison_results, llm_adapter), 1, n)
                  \o SubSeq(comparison_results, n + 1, Len(comparison_results))
    /\ raised' = Raised(PhaseError("_analyze_changes_with_llm"))
    /\ pc' = "raised"
    /\ UNCHANGED <<normalize_case, text, second_text, out, paragraphs1, paragraphs2,
                   file1_tables, file2_tables, table_changes, file1_images,
                   file2_images, image_changes, llm_adapter, returned>>

\* The constructor returns: the caller holds the object and its three lists.
ReturnCompare ==
    /\ \/ pc = "llm"
       \/ pc = "images" /\ ~IsEnabled(llm_adapter)
    /\ returned' = Some([comparison_results |-> comparison_results,
                         table_changes |-> table_changes,
                         image_changes |-> image_changes])
    /\ pc' = "complete"
    /\ UNCHANGED <<normalize_case, text, second_text, out, paragraphs1, paragraphs2,
                   comparison_results, file1_tables, file2_tables, table_changes,
                   file1_images, file2_images, image_changes, llm_adapter, raised>>

GetStatistics ==
    /\ pc = "complete"
    /\ out' = <<get_statistics(returned[1].comparison_results, file1_tables,
                               file2_tables, returned[1].table_changes, file1_images,
                               file2_images, returned[1].image_changes)>>
    /\ pc' = "statistics"
    /\ UNCHANGED <<normalize_case, text, second_text, paragraphs1, paragraphs2,
                   comparison_results, file1_tables, file2_tables, table_changes,
                   file1_images, file2_images, image_changes, llm_adapter, raised,
                   returned>>

NextRun ==
    \/ RunCompareDocuments
    \/ RaiseInCompareDocuments
    \/ RunCompareTables
    \/ RaiseInCompareTables
    \/ RunCompareImages
    \/ RaiseInCompareImages
    \/ RunAnalyzeChangesWithLlm
    \/ RaiseInAnalyzeChangesWithLlm
    \/ ReturnCompare
    \/ GetStatistics

SpecRun == InitRun /\ [][NextRun]_vars

----------------------------------------------------------------------------
(* The comparison of the images alone: Compare._compare_images on every    *)
(* pair of image lists of up to MaxImages images over three contents.      *)

MaxImages == 3       \* images per document

ImageBlobs == {"p", "q", "r"}

RECURSIVE ImageLists(_)
ImageLists(n) ==
    IF n = 0 THEN {<<>>}
    ELSE LET shorter == ImageLists(n - 1)
         IN  shorter \cup {ParsedImages(images, blob) : images \in shorter, blob \in ImageBlobs}

InitImages ==
    /\ normalize_case = FALSE
    /\ text = <<>>
    /\ second_text = <<>>
    /\ out = <<>>
    /\ paragraphs1 = <<>>
    /\ paragraphs2 = <<>>
    /\ comparison_results = <<>>
    /\ file1_tables = <<>>
    /\ file2_tables = <<>>
    /\ table_changes = <<>>
    /\ file1_images \in ImageLists(MaxImages)
    /\ file2_images \in ImageLists(MaxImages)
    /\ image_changes = <<>>
    /\ llm_adapter = "none"
    /\ raised = <<>>
    /\ returned = <<>>
    /\ pc = "images"

CompareImages ==
    /\ pc = "images"
    /\ image_changes' = _compare_images(file1_images, file2_images)
    /\ pc' = "images_compared"
    /\ UNCHANGED <<normalize_case, text, second_text, out, paragraphs1, paragraphs2,
                   comparison_results, file1_tables, file2_tables, table_changes,
                   file1_images, file2_images, llm_adapter, raised, returned>>

NextImages == CompareImages

SpecImages == InitImages /\ [][NextImages]_vars

----------------------------------------------------------------------------
(* One call of LLMAdapter.analyze_changes, request by request.  The        *)
(* adapter and the retry settings of config.llm are in llm_adapter, the    *)
(* loop variable and the log of the requests and waits of the call in out. *)

MaxRetries == 3      \* largest config.llm.max_retries
MaxDelay == 2        \* largest config.llm.retry_delay_seconds

\* What client.chat.completions.create does on one request: it returns a
\* response with a text, with an empty text or without choices, or raises;
\* the message of the exception names the model (or 422, or an invalid
\* parameter) or does not.
RequestOutcomes ==
    {"content", "empty content", "no choices", "exception", "model exception"}

\* The prompt templates: the default one, and one read from the prompts
\* folder that has a placeholder str.format is given no value for.
PromptTemplates == {"default", "foreign placeholder"}

\* The context argument: none, or a path and a page.
Contexts == {"none", "path and page"}

LlmAdapters ==
    [enabled : BOOLEAN, client : {"none", "client"}, user_prompt_template : PromptTemplates,
     max_retries : 0..MaxRetries, retry_delay_seconds : 1..MaxDelay, context : Contexts]

RECURSIVE Pow2(_)
Pow2(n) == IF n = 0 THEN 1 ELSE 2 * Pow2(n - 1)

\* A variant of the delay that does not grow.
DelayConstant(retry_delay, attempt) == retry_delay

\* delay = retry_delay * (2 ** attempt)
Delay(retry_delay, attempt) == retry_delay * Pow2(attempt)

\* The value returned for a response: the text of the answer behind the
\* path prefix of the context, or the fixed answer for a response without
\* text.
ResponseText(outcome, context) ==
    IF outcome = "content"
    THEN (IF context = "path and page" THEN "path. page 1. reply" ELSE LlmReply)
    ELSE "No changes"

RequestEvent(attempt, outcome) == [event |-> "request", attempt |-> attempt, outcome |-> outcome]

SleepEvent(delay) == [event |-> "sleep", delay |-> delay]

InitRetry ==
    /\ normalize_case = FALSE
    /\ text = <<>>
    /\ second_text = <<>>
    /\ out = [attempt |-> 0, log |-> <<>>]
    /\ paragraphs1 = <<>>
    /\ paragraphs2 = <<>>
    /\ comparison_results = <<>>
    /\ file1_tables = <<>>
    /\ file2_tables = <<>>
    /\ table_changes = <<>>
    /\ file1_images = <<>>
    /\ file2_images = <<>>
    /\ image_changes = <<>>
    /\ llm_adapter \in {a \in LlmAdapters : a.enabled => a.client = "client"}
    /\ raised = <<>>
    /\ returned = <<>>
    /\ pc = "call"

\* if not self.enabled or not self.client: return ""
ReturnDisabled ==
    /\ pc = "call"
    /\ ~llm_adapter.enabled \/ llm_adapter.client = "none"
    /\ returned' = Some("")
    /\ pc' = "returned"
    /\ UNCHANGED <<normalize_case, text, second_text, out, paragraphs1, paragraphs2,
                   comparison_results, file1_tables, file2_tables, table_changes,
                   file1_images, file2_images, image_changes, llm_adapter, raised>>

\* The prefix and the prompt: user_prompt_template.format, outside any try.
FormatPrompt ==
    /\ pc = "call"
    /\ llm_adapter.enabled /\ llm_adapter.client = "client"
    /\ IF llm_adapter.user_prompt_template = "default"
       THEN pc' = "loop" /\ UNCHANGED raised
       ELSE /\ raised' = Some([type |-> "KeyError", str |-> "'placeholder'",
                               raised_in |-> "analyze_changes"])
            /\ pc' = "raised"
    /\ UNCHANGED <<normalize_case, text, second_text, out, paragraphs1, paragraphs2,
                   comparison_results, file1_tables, file2_tables, table_changes,
                   file1_images, file2_images, image_changes, llm_adapter, returned>>

\* One pass of the loop over range(max_retries): the request, and the
\* handler of its exception up to the call of time.sleep.
Request ==
    /\ pc = "loop"
    /\ out.attempt < llm_adapter.max_retries
    /\ \E outcome \in RequestOutcomes :
          /\ out' = [out EXCEPT !.log = Append(@, RequestEvent(out.attempt, outcome))]
          /\ IF outcome \in {"content", "empty content", "no choices"}
             THEN /\ returned' = Some(ResponseText(outcome, llm_adapter.context))
                  /\ pc' = "returned"
             ELSE IF outcome = "model exception"
                     \/ out.attempt = llm_adapter.max_retries - 1
             THEN /\ returned' = Some("")
                  /\ pc' = "returned"
             ELSE /\ UNCHANGED returned
                  /\ pc' = "sleep"
    /\ UNCHANGED <<normalize_case, text, second_text, paragraphs1, paragraphs2,
                   comparison_results, file1_tables, file2_tables, table_changes,
                   file1_images, file2_images, image_changes, llm_adapter, raised>>

\* time.sleep(delay), and the next value of the loop variable.
Sleep ==
    /\ pc = "sleep"
    /\ out' = [attempt |-> out.attempt + 1,
               log |-> Append(out.log,
                          SleepEvent(Delay(llm_adapter.retry_delay_seconds, out.attempt)))]
    /\ pc' = "loop"
    /\ UNCHANGED <<normalize_case, text, second_text, paragraphs1, paragraphs2,
                   comparison_results, file1_tables, file2_tables, table_changes,
                   file1_images, file2_images, image_changes, llm_adapter, raised, returned>>

\* The return after the loop, when range(max_retries) is used up.
ReturnAfterLoop ==
    /\ pc = "loop"
    /\ out.attempt >= llm_adapter.max_retries
    /\ returned' = Some("")
    /\ pc' = "returned"
    /\ UNCHANGED <<normalize_case, text, second_text, out, paragraphs1, paragraphs2,
                   comparison_results, file1_tables, file2_tables, table_changes,
                   file1_images, file2_images, image_changes, llm_adapter, raised>>

NextRetry == ReturnDisabled \/ FormatPrompt \/ Request \/ Sleep \/ ReturnAfterLoop

\* The call runs on: no step of it waits for anything but the client and
\* the clock, and the request has a timeout.
SpecRetry == InitRetry /\ [][NextRetry]_vars /\ WF_vars(NextRetry)

----------------------------------------------------------------------------
(* The hierarchy of headings: the loop over the paragraphs of              *)
(* DocxFile._parse_document with _get_heading_level, _classify_element,    *)
(* _update_hierarchy_stack and _build_full_path.  The stack and the number *)
(* of paragraphs read are in out, the calls of _update_hierarchy_stack so  *)
(* far in text, self.paragraphs in paragraphs1.                            *)
(* Stand-ins: "fig." and "tabl." for the Russian caption prefixes, the     *)
(* labels Section, Subsection and Item for the Russian ones of the path.   *)

MaxParsed == 4       \* paragraphs of the document
MaxLevel == 3        \* deepest heading style

DigitChars == {"1", "2"}
UpperChars == {"B"}
LowerChars == {"a", "b", "f", "g", "i", "l", "t"}

\* The length of the run of characters of cls in s from position i on.
RECURSIVE RunLength(_, _, _)
RunLength(s, i, cls) ==
    IF i > Len(s) \/ s[i] \notin cls THEN 0 ELSE 1 + RunLength(s, i + 1, cls)

\* The end of the longest match of (?:\.\d+)* in s from position i on, and
\* the number of groups matched, added to n.
RECURSIVE DottedGroups(_, _, _)
DottedGroups(s, i, n) ==
    IF i <= Len(s) /\ s[i] = "." /\ RunLength(s, i + 1, DigitChars) > 0
    THEN DottedGroups(s, i + 1 + RunLength(s, i + 1, DigitChars), n + 1)
    ELSE [next |-> i, groups |-> n]

\* re.match(r'^(\d+(?:\.\d+)*)', text): the position after the number and
\* the count of its components, 0 without a match.
NumberMatch(s) ==
    IF RunLength(s, 1, DigitChars) = 0 THEN [next |-> 1, groups |-> 0]
    ELSE DottedGroups(s, 1 + RunLength(s, 1, DigitChars), 1)

\* re.match(r'^(\d+(?:\.\d+)*)\.\s+', text): the number, a dot, whitespace.
NumberedPattern(s) ==
    LET m == NumberMatch(s)
    IN  /\ m.groups > 0
        /\ m.next <= Len(s) /\ s[m.next] = "."
        /\ RunLength(s, m.next + 1, Whitespace) > 0

\* re.match(r'^\d+\.?\s+[A-Z]', text)
NumberThenCapital(s) ==
    LET digits == RunLength(s, 1, DigitChars)
        dot == IF digits + 1 <= Len(s) /\ s[digits + 1] = "." THEN 1 ELSE 0
        spaces == RunLength(s, digits + dot + 1, Whitespace)
    IN  /\ digits > 0
        /\ spaces > 0
        /\ digits + dot + spaces + 1 <= Len(s)
        /\ s[digits + dot + spaces + 1] \in UpperChars

\* re.match(r'^[A-Z][a-z]+\s+\d+', text)
WordThenNumber(s) ==
    LET lowers == RunLength(s, 2, LowerChars)
        spaces == RunLength(s, 2 + lowers, Whitespace)
    IN  /\ s # <<>> /\ s[1] \in UpperChars
        /\ lowers > 0
        /\ spaces > 0
        /\ RunLength(s, 2 + lowers + spaces, DigitChars) > 0

\* DocxFile._get_heading_level: the level the style of the paragraph or the
\* formatting of its first run gives, and without one the depth of the
\* number the text starts with.
_get_heading_level(para) ==
    IF para.style_level >= 1 THEN para.style_level
    ELSE IF NumberedPattern(para.text) /\ NumberMatch(para.text).groups <= 9
    THEN NumberMatch(para.text).groups
    ELSE 0

_classify_element(txt, heading_level) ==
    IF heading_level >= 1
    THEN (IF heading_level <= 2 THEN "section" ELSE "chapter")
    ELSE IF (NumberThenCapital(txt) \/ WordThenNumber(txt)) /\ Len(txt) < 100
    THEN "section"
    ELSE "paragraph"

StartsWith(s, prefix) ==
    Len(s) >= Len(prefix) /\ SubSeq(s, 1, Len(prefix)) = prefix

CaptionPrefixes == {<<"f", "i", "g", ".">>, <<"t", "a", "b", "l", ".">>}

\* text.lower().startswith(...) for the caption prefixes
IsCaption(txt) == \E prefix \in CaptionPrefixes : StartsWith(Lower(txt), prefix)

\* The pops of _update_hierarchy_stack: the entries of level >= level leave
\* the top of the stack.
RECURSIVE PopNotBelow(_, _)
PopNotBelow(stack, level) ==
    IF stack # <<>> /\ stack[Len(stack)].level >= level
    THEN PopNotBelow(SubSeq(stack, 1, Len(stack) - 1), level)
    ELSE stack

RECURSIVE PopAbove(_, _)
PopAbove(stack, level) ==
    IF stack # <<>> /\ stack[Len(stack)].level > level
    THEN PopAbove(SubSeq(stack, 1, Len(stack) - 1), level)
    ELSE stack

\* A variant that pops only the entries of a greater level.
UpdateKeepingEqualLevel(stack, txt, level, element_type) ==
    Append(PopAbove(stack, level), [text |-> txt, level |-> level, type |-> element_type])

_update_hierarchy_stack(stack, txt, level, element_type) ==
    Append(PopNotBelow(stack, level), [text |-> txt, level |-> level, type |-> element_type])

LevelLabel(level) ==
    IF level <= 2 THEN "Section" ELSE IF level <= 4 THEN "Subsection" ELSE "Item"

\* One part of the path: the label of the level with the number the text
\* starts with, or with the first 50 characters of the text.
PathPart(item) ==
    IF NumberMatch(item.text).groups > 0
    THEN [label |-> LevelLabel(item.level),
          number |-> Some(SubSeq(item.text, 1, NumberMatch(item.text).next - 1)),
          title |-> None]
    ELSE [label |-> LevelLabel(item.level),
          number |-> None,
          title |-> Some(IF Len(item.text) > 50 THEN SubSeq(item.text, 1, 50) ELSE item.text)]

\* DocxFile._build_full_path: the parts of the path, bottom of the stack
\* first; the source joins them with " > ".
_build_full_path(stack) == [k \in 1..Len(stack) |-> PathPart(stack[k])]

HeadingTexts ==
    { <<>>,
      <<"a", "b">>,
      <<"1", " ", "B">>,
      <<"1", ".", "1", ".", " ", "B">>,
      <<"B", "b", " ", "1">>,
      <<"f", "i", "g", ".">> }

\* The paragraphs of the document: a text and the level of its style.
DocumentParagraphs == [text : HeadingTexts, style_level : 0..MaxLevel]

InitHierarchy ==
    /\ normalize_case = FALSE
    /\ text = <<>>
    /\ second_text = <<>>
    /\ out = [hierarchy_stack |-> <<>>, read |-> 0]
    /\ paragraphs1 = <<>>
    /\ paragraphs2 = <<>>
    /\ comparison_results = <<>>
    /\ file1_tables = <<>>
    /\ file2_tables = <<>>
    /\ table_changes = <<>>
    /\ file1_images = <<>>
    /\ file2_images = <<>>
    /\ image_changes = <<>>
    /\ llm_adapter = "none"
    /\ raised = <<>>
    /\ returned = <<>>
    /\ pc = "parsing"

\* The condition of the loop body under which it calls
\* _update_hierarchy_stack: a text, not a caption, classified as a heading.
UpdatesHierarchy(para) ==
    /\ para.text # <<>>
    /\ ~IsCaption(para.text)
    /\ _classify_element(para.text, _get_heading_level(para)) \in {"section", "chapter"}

StackAfter(stack, para) ==
    IF UpdatesHierarchy(para)
    THEN _update_hierarchy_stack(stack, para.text, _get_heading_level(para),
                                 _classify_element(para.text, _get_heading_level(para)))
    ELSE stack

\* One pass of the loop over the paragraphs of the document.
ParseParagraph ==
    /\ pc = "parsing"
    /\ out.read < MaxParsed
    /\ \E para \in DocumentParagraphs :
          /\ out' = [hierarchy_stack |-> StackAfter(out.hierarchy_stack, para),
                     read |-> out.read + 1]
          /\ text' = IF UpdatesHierarchy(para)
                     THEN Append(text, [text |-> para.text, level |-> _get_heading_level(para)])
                     ELSE text
          /\ paragraphs1' =
                IF para.text = <<>> THEN paragraphs1
                ELSE Append(paragraphs1,
                         [text |-> para.text,
                          level |-> _get_heading_level(para),
                          type |-> _classify_element(para.text, _get_heading_level(para)),
                          full_path |-> _build_full_path(StackAfter(out.hierarchy_stack, para))])
    /\ UNCHANGED <<normalize_case, second_text, paragraphs2, comparison_results,
                   file1_tables, file2_tables, table_changes, file1_images, file2_images,
                   image_changes, llm_adapter, raised, returned, pc>>

\* The end of the loop.
EndOfDocument ==
    /\ pc = "parsing"
    /\ pc' = "parsed"
    /\ UNCHANGED <<normalize_case, text, second_text, out, paragraphs1, paragraphs2,
                   comparison_results, file1_tables, file2_tables, table_changes,
                   file1_images, file2_images, image_changes, llm_adapter, raised, returned>>

NextHierarchy == ParseParagraph \/ EndOfDocument

SpecHierarchy == InitHierarchy /\ [][NextHierarchy]_vars

----------------------------------------------------------------------------
(* Vocabulary of the properties.                                           *)

Done == pc = "done"

NumSource == Len(paragraphs1)
NumTarget == Len(paragraphs2)

Records == {comparison_results[k] : k \in 1..Len(comparison_results)}

HasBothSides(r) == r.index_1 # None /\ r.index_2 # None

Norm1(i) == NormalizedText(paragraphs1[i].text, normalize_case)
Norm2(j) == NormalizedText(paragraphs2[j].text, normalize_case)
Fp1(i) == Fingerprint(paragraphs1[i].text, normalize_case)
Fp2(j) == Fingerprint(paragraphs2[j].text, normalize_case)

\* The record pairs source i with a target of the same normalized text and
\* calls the pair identical.
PairedIdentical(r) ==
    /\ HasBothSides(r)
    /\ r.status = "identical"
    /\ Norm1(r.index_1[1]) = Norm2(r.index_2[1])

\* The pairs (1-based) the block alignment made, the pairs the fingerprint pass
\* added, and the records the best-similarity pass paired.
AlignedPairs ==
    {<<p[1] + 1, p[2] + 1>> :
        p \in PositionPairs([i \in 1..NumSource |-> Norm1(i)],
                            [j \in 1..NumTarget |-> Norm2(j)])}

MappedPairs ==
    LET mm == MatchState(paragraphs1, paragraphs2, normalize_case).match_map
    IN  {<<i + 1, mm[i] + 1>> : i \in DOMAIN mm}

FingerprintPairs == MappedPairs \ AlignedPairs

BestMatchRecords ==
    {r \in Records : HasBothSides(r) /\ \A p \in MappedPairs : p[1] # r.index_1[1]}

WithStatus(st) == {k \in 1..Len(comparison_results) : comparison_results[k].status = st}

----------------------------------------------------------------------------
(* C1: once the comparison has run, every source position 1..n is index_1  *)
(* of exactly one record and every target position 1..m is index_2 of      *)
(* exactly one record, and every record has a side: no paragraph is        *)
(* dropped, duplicated or paired with two partners.                        *)

C1_EveryParagraphOnce ==
    Done =>
        /\ \A i \in 1..NumSource :
              Cardinality({k \in 1..Len(comparison_results) :
                              comparison_results[k].index_1 = Some(i)}) = 1
        /\ \A j \in 1..NumTarget :
              Cardinality({k \in 1..Len(comparison_results) :
                              comparison_results[k].index_2 = Some(j)}) = 1
        /\ \A r \in Records :
              /\ r.index_1 # None \/ r.index_2 # None
              /\ r.index_1 # None => r.index_1[1] \in 1..NumSource
              /\ r.index_2 # None => r.index_2[1] \in 1..NumTarget

\* A run in which the fingerprint pass and the best-similarity pass each paired
\* a source paragraph and a target paragraph was left over.
C1_Witness ==
    /\ Done
    /\ FingerprintPairs # {}
    /\ BestMatchRecords # {}
    /\ WithStatus("added") # {}

(* C2: the first n records are the source paragraphs in source order; they *)
(* are followed by one added record for each target no pass consumed, in   *)
(* ascending target order; the list has n records plus the added ones.     *)

C2_ResultOrder ==
    Done =>
        LET consumed == {comparison_results[k].index_2[1] :
                            k \in {h \in 1..NumSource : comparison_results[h].index_2 # None}}
            leftover == (1..NumTarget) \ consumed
        IN  /\ Len(comparison_results) = NumSource + Cardinality(leftover)
            /\ \A k \in 1..NumSource : comparison_results[k].index_1 = Some(k)
            /\ \A k \in (NumSource + 1)..Len(comparison_results) :
                  /\ comparison_results[k].status = "added"
                  /\ comparison_results[k].index_1 = None
                  /\ comparison_results[k].index_2 # None
                  /\ comparison_results[k].index_2[1] \in leftover
            /\ \A k, h \in (NumSource + 1)..Len(comparison_results) :
                  k < h => comparison_results[k].index_2[1] < comparison_results[h].index_2[1]

\* A run with two source records of different status followed by two added records.
C2_Witness ==
    /\ Done
    /\ NumSource = 2
    /\ comparison_results[1].status # comparison_results[2].status
    /\ Cardinality(WithStatus("added")) = 2

(* C3: a document compared with itself: every record is identical with     *)
(* index_2 = index_1; nothing is added, deleted or modified.               *)

DistinctTexts ==
    /\ \A i \in 1..NumSource : Fp1(i) # <<>>
    /\ \A i, j \in 1..NumSource : i # j => Norm1(i) # Norm1(j) /\ Fp1(i) # Fp1(j)

Occurrences(ps, p) == Cardinality({k \in 1..Len(ps) : ps[k] = p})

\* Document 2 holds the paragraphs of document 1, each as often, in some order.
IsReordering ==
    /\ NumTarget = NumSource
    /\ \A i \in 1..NumSource :
          Occurrences(paragraphs2, paragraphs1[i]) = Occurrences(paragraphs1, paragraphs1[i])

C4_PureReorder ==
    (Done /\ IsReordering /\ DistinctTexts) =>
        /\ Len(comparison_results) = NumSource
        /\ \A r \in Records :
              /\ PairedIdentical(r)
              /\ paragraphs1[r.index_1[1]].text = paragraphs2[r.index_2[1]].text

\* Three distinct paragraphs in another order, one pair found by the
\* fingerprint pass only.
C4_Witness ==
    /\ Done
    /\ DistinctTexts
    /\ NumSource = 3
    /\ paragraphs2 # paragraphs1
    /\ FingerprintPairs # {}

(* C5 as stated: one list is the other with a single paragraph X inserted, *)
(* all texts distinct as raw texts: the common paragraphs are identical    *)
(* and X is the one other record, added when X is in document 2 and        *)
(* deleted when X is in document 1.                                        *)

Remove(s, k) == SubSeq(s, 1, k - 1) \o SubSeq(s, k + 1, Len(s))

InsertedAt(short, long, k) ==
    /\ Len(long) = Len(short) + 1
    /\ k \in 1..Len(long)
    /\ Remove(long, k) = short

RawDistinct(ps) == \A i, j \in 1..Len(ps) : i # j => ps[i].text # ps[j].text

NormDistinct(ps) ==
    \A i, j \in 1..Len(ps) :
        i # j => NormalizedText(ps[i].text, normalize_case)
                 # NormalizedText(ps[j].text, normalize_case)

\* X = paragraphs2[k] is the one added record, after n identical records.
OnlyAdded(k) ==
    /\ Len(comparison_results) = NumSource + 1
    /\ \A h \in 1..NumSource : PairedIdentical(comparison_results[h])
    /\ comparison_results[NumSource + 1].status = "added"
    /\ comparison_results[NumSource + 1].index_2 = Some(k)

\* X = paragraphs1[k] is the one deleted record, among identical records.
OnlyDeleted(k) ==
    /\ Len(comparison_results) = NumSource
    /\ \A h \in (1..NumSource) \ {k} : PairedIdentical(comparison_results[h])
    /\ comparison_results[k].status = "deleted"
    /\ comparison_results[k].index_2 = None

C5_Original ==
    Done =>
        /\ \A k \in 1..NumTarget :
              (InsertedAt(paragraphs1, paragraphs2, k) /\ RawDistinct(paragraphs2))
                  => OnlyAdded(k)
        /\ \A k \in 1..NumSource :
              (InsertedAt(paragraphs2, paragraphs1, k) /\ RawDistinct(paragraphs1))
                  => OnlyDeleted(k)

(* C5 amended: the same with all texts distinct after normalization.       *)

C5_SingleInsertion ==
    Done =>
        /\ \A k \in 1..NumTarget :
              (InsertedAt(paragraphs1, paragraphs2, k) /\ NormDistinct(paragraphs2))
                  => OnlyAdded(k)
        /\ \A k \in 1..NumSource :
              (InsertedAt(paragraphs2, paragraphs1, k) /\ NormDistinct(paragraphs1))
                  => OnlyDeleted(k)

\* X inserted in the middle of a document of two paragraphs.
C5_Witness ==
    /\ Done
    /\ NumSource = 2
    /\ InsertedAt(paragraphs1, paragraphs2, 2)
    /\ NormDistinct(paragraphs2)
    /\ OnlyAdded(2)

(* C6: a record with both sides is identical when its similarity is at     *)
(* least similarity_threshold_identical (1.0) and modified otherwise,      *)
(* whichever pass paired it.                                               *)

C6_StatusFollowsSimilarity ==
    Done =>
        \A r \in Records :
            HasBothSides(r) =>
                r.status = IF r.similarity.num >= r.similarity.den
                           THEN "identical" ELSE "modified"

\* A run with a pair from each pass: aligned, by fingerprint with similarity
\* below 1.0, and by best similarity.
C6_Witness ==
    /\ Done
    /\ \E r \in Records : HasBothSides(r) /\ <<r.index_1[1], r.index_2[1]>> \in AlignedPairs
    /\ \E r \in Records :
          /\ HasBothSides(r)
          /\ <<r.index_1[1], r.index_2[1]>> \in FingerprintPairs
          /\ r.status = "modified"
    /\ BestMatchRecords # {}

(* C7 as stated: document 2 holds the paragraphs of document 1 in any      *)
(* order and some text occurs twice: every record pairs a source paragraph *)
(* with a target of the same normalized text as identical.                 *)

SomeTextRepeated ==
    \E i, j \in 1..NumSource : i # j /\ paragraphs1[i].text = paragraphs1[j].text

C7_Original ==
    (Done /\ IsReordering /\ SomeTextRepeated) =>
        \A r \in Records : PairedIdentical(r)

(* C7 amended: the same for every paragraph whose fingerprint is shared    *)
(* only by paragraphs of the same normalized text.                         *)

\* No paragraph of another normalized text has the fingerprint of this text.
FingerprintUnshared(t) ==
    \A i \in 1..NumSource :
        Fp1(i) = Fingerprint(t, normalize_case)
            => Norm1(i) = NormalizedText(t, normalize_case)

TextOf(r) == IF r.text_1 # None THEN r.text_1[1] ELSE r.text_2[1]

C7_Duplicates ==
    (Done /\ IsReordering /\ SomeTextRepeated) =>
        \A r \in Records : FingerprintUnshared(TextOf(r)) => PairedIdentical(r)

\* A reordering in which the copies of a repeated paragraph are paired as
\* identical, out of their original order, while two paragraphs sharing a
\* fingerprint are paired crosswise as modified.
C7_Witness ==
    /\ Done
    /\ paragraphs2 # paragraphs1
    /\ WithStatus("modified") # {}
    /\ \E r \in Records :
          /\ PairedIdentical(r)
          /\ r.index_2 # r.index_1
          /\ FingerprintUnshared(TextOf(r))
          /\ \E i \in 1..NumSource : i # r.index_1[1] /\ paragraphs1[i].text = TextOf(r)

(* C8: with document 1 empty every paragraph of document 2 gives one added *)
(* record and nothing else; with document 2 empty every paragraph of       *)
(* document 1 gives one deleted record, index_2 absent and similarity 0.0. *)

C8_EmptyDocument ==
    Done =>
        /\ NumSource = 0 =>
              /\ Len(comparison_results) = NumTarget
              /\ \A k \in 1..NumTarget :
                    /\ comparison_results[k].status = "added"
                    /\ comparison_results[k].index_1 = None
                    /\ comparison_results[k].index_2 = Some(k)
        /\ NumTarget = 0 =>
              /\ Len(comparison_results) = NumSource
              /\ \A k \in 1..NumSource :
                    /\ comparison_results[k].status = "deleted"
                    /\ comparison_results[k].index_1 = Some(k)
                    /\ comparison_results[k].index_2 = None
                    /\ comparison_results[k].similarity = Zero

\* Three paragraphs compared with an empty document.
C8_Witness ==
    /\ Done
    /\ NumTarget = 0
    /\ NumSource = 3
    /\ Len(comparison_results) = 3

(* C9: normalizing a normalized text changes nothing, with case folding on *)
(* or off.                                                                 *)

C9_Idempotent == Len(out) = 2 => out[2] = out[1]

\* A text with case folding on that its normalization changed, normalized twice.
C9_Witness ==
    /\ Len(out) = 2
    /\ normalize_case
    /\ out[1] # text
    /\ Len(out[1]) >= 3

(* C10: a normalized text holds no line break and no special space, no two *)
(* spaces in a row and no space at either end; a text of whitespace only   *)
(* normalizes to the empty text; the other characters are kept in order,   *)
(* lowercased when normalize_case is on.                                   *)

NonSpaceChars(s) == SelectSeq(s, LAMBDA c : c \notin Whitespace)

C10_NormalForm ==
    Len(out) >= 1 =>
        LET r == out[1]
        IN  /\ \A i \in 1..Len(r) : r[i] \notin {"\n", "\r", NBSP, THSP, PUSP}
            /\ \A i \in 1..(Len(r) - 1) : ~(r[i] = " " /\ r[i + 1] = " ")
            /\ r # <<>> => r[1] # " " /\ r[Len(r)] # " "
            /\ (\A i \in 1..Len(text) : text[i] \in Whitespace) => r = <<>>
            /\ NonSpaceChars(r) = NonSpaceChars(IF normalize_case THEN Lower(text) ELSE text)

\* A letter, a line break, a non-breaking space and a capital, case kept.
C10_Witness ==
    /\ Len(out) >= 1
    /\ ~normalize_case
    /\ text = <<"a", "\n", NBSP, "B">>
    /\ out[1] = <<"a", " ", "B">>

(* C11: _calculate_similarity returns exactly 1.0 when the normalized      *)
(* forms of its two texts are equal, and otherwise a value that is at      *)
(* least 0 and strictly below 1.0.                                         *)

C11_SimilarityOneIffEqual ==
    pc = "similarity" =>
        LET similarity == out[1]
        IN  IF _normalize_text(text, normalize_case)
               = _normalize_text(second_text, normalize_case)
            THEN similarity = One
            ELSE /\ similarity.den > 0
                 /\ similarity.num >= 0
                 /\ similarity.num < similarity.den

\* Two texts that differ in whitespace only, and have similarity 1.0.
C11_Witness ==
    /\ pc = "similarity"
    /\ text # second_text
    /\ Len(_normalize_text(text, normalize_case)) >= 3
    /\ _normalize_text(text, normalize_case) = _normalize_text(second_text, normalize_case)
    /\ out[1] = One

(* C12: _determine_change_type returns the label of the first rule that    *)
(* applies, in this order: normalized texts equal, formatting change; sets *)
(* of lowercased words equal, word-order change; words added and none      *)
(* removed, text addition; words removed and none added, text deletion;    *)
(* more than twice as many added as removed, major addition; more than     *)
(* twice as many removed as added, major deletion; otherwise content       *)
(* change.  The label is one of the seven and is the same for the          *)
(* normalized texts as for the texts.                                      *)

----------------------------------------------------------------------------
(* Tables.                                                                 *)

\* The cell at row r, column c (from 1) of a grid padded with empty strings.
PaddedCell(rows, r, c) ==
    IF r <= Len(rows) /\ c <= Len(rows[r]) THEN rows[r][c] ELSE <<>>

GridWidth(rows) == SetMax({Len(rows[r]) : r \in 1..Len(rows)} \cup {0})

\* The positions of a grid and of its padding next to another grid.
GridPositions(rows1, rows2) ==
    {<<r, c>> \in (1..Max(Len(rows1), Len(rows2)))
                      \X (1..Max(GridWidth(rows1), GridWidth(rows2))) :
        c <= Max(RowLen(rows1, r - 1), RowLen(rows2, r - 1))}

\* Each document has one table, of the same shape, and the two differ in
\* the cell of row 2, column 1 alone: "1000" in the first, "1500" in the second.
OneCellExample ==
    /\ Len(file1_tables) = 1
    /\ Len(file2_tables) = 1
    /\ LET rows1 == file1_tables[1].rows
           rows2 == file2_tables[1].rows
       IN  /\ Len(rows1) = Len(rows2)
           /\ Len(rows1) >= 2
           /\ \A r \in 1..Len(rows1) : Len(rows1[r]) = Len(rows2[r])
           /\ rows1[2][1] = Cell1000
           /\ rows2[2][1] = Cell1500
           /\ \A r \in 1..Len(rows1) : \A c \in 1..Len(rows1[r]) :
                  <<r, c>> # <<2, 1>> => rows1[r][c] = rows2[r][c]

OneCellChange ==
    <<[row |-> 2, col |-> 1, old_value |-> Cell1000, new_value |-> Cell1500]>>

\* The entries of a list of cell changes name exactly the positions where
\* the padded grids differ, once each, in row-major order, with both values.
CellChangesExact(changes, rows1, rows2) ==
    /\ \A k \in 1..Len(changes) :
          /\ <<changes[k].row, changes[k].col>> \in GridPositions(rows1, rows2)
          /\ changes[k].old_value = PaddedCell(rows1, changes[k].row, changes[k].col)
          /\ changes[k].new_value = PaddedCell(rows2, changes[k].row, changes[k].col)
          /\ changes[k].old_value # changes[k].new_value
    /\ \A k \in 1..(Len(changes) - 1) :
          \/ changes[k].row < changes[k + 1].row
          \/ changes[k].row = changes[k + 1].row /\ changes[k].col < changes[k + 1].col
    /\ \A pos \in GridPositions(rows1, rows2) :
          PaddedCell(rows1, pos[1], pos[2]) # PaddedCell(rows2, pos[1], pos[2])
              => \E k \in 1..Len(changes) : <<changes[k].row, changes[k].col>> = pos

\* C13 (as stated): _find_table_cell_changes returns one entry for every
\* position where the padded grids differ, in row-major order and with
\* 1-based numbers, and none for equal cells; and two tables that differ in
\* the cell of row 2, column 1 alone ("1000" against "1500") give one table
\* record, of status modified, whose cell changes are that one entry.
C13_CellChangesAndModified ==
    /\ pc = "cell_changes"
           => CellChangesExact(out[1], file1_tables[1].rows, file2_tables[1].rows)
    /\ (pc = "tables_compared" /\ OneCellExample)
           => /\ Len(table_changes) = 1
              /\ table_changes[1].status = "modified"
              /\ table_changes[1].cell_changes = Some(OneCellChange)

----------------------------------------------------------------------------
(* Whole runs.                                                             *)

\* The paragraph records before any enrichment.
BaseResults == _compare_documents(paragraphs1, paragraphs2, normalize_case)

\* The two lists have the same records in the same order, llm_response
\* aside.
SameButLlmResponse(results, base) ==
    /\ Len(results) = Len(base)
    /\ \A k \in 1..Len(results) : [results[k] EXCEPT !.llm_response = ""] = base[k]

AfterEnrichment == pc \in {"llm", "complete", "statistics"}

\* C14: the enrichment by the language model changes llm_response alone.
\* With no adapter, a disabled one, one whose requests all fail or one that
\* answers, the result list has the same records in the same order with
\* the same status, similarity, indexes, texts and change type; records of
\* status identical keep an empty llm_response; and without an answering
\* adapter every llm_response stays empty.
C14_OnlyLlmResponseChanges ==
    AfterEnrichment =>
        /\ SameButLlmResponse(comparison_results, BaseResults)
        /\ \A k \in 1..Len(comparison_results) :
              \/ comparison_results[k].llm_response = ""
              \/ /\ comparison_results[k].status # "identical"
                 /\ llm_adapter = "answering"
        /\ table_changes = _compare_tables(file1_tables, file2_tables, normalize_case)
        /\ image_changes = _compare_images(file1_images, file2_images)

\* A completed run with an answering adapter whose list holds an identical
\* record and an analysed one.
C14_Witness ==
    /\ pc = "complete"
    /\ llm_adapter = "answering"
    /\ \E k \in 1..Len(comparison_results) : comparison_results[k].status = "identical"
    /\ \E k \in 1..Len(comparison_results) :
          /\ comparison_results[k].status = "modified"
          /\ comparison_results[k].llm_response = LlmReply

RaisedIn(method) ==
    /\ raised # None
    /\ raised[1].context # None
    /\ raised[1].context[1].raised_in = method

\* C15 (as stated): an exception raised while a paragraph is classified is
\* caught and the paragraph gets a degraded classification; the comparison
\* goes on and returns a complete result list, one record for each source
\* paragraph at least.  So no run ends with an exception that comes from
\* _compare_documents.
C15_ParagraphErrorIsContained ==
    /\ ~RaisedIn("_compare_documents")
    /\ pc = "raised" => Len(comparison_results) >= NumSource

\* The constructor has returned.
Returned == pc \in {"complete", "statistics"}

RunStates ==
    /\ returned # None =>
          /\ Returned
          /\ raised = None
          /\ returned[1].comparison_results
                = (IF IsEnabled(llm_adapter)
                   THEN _analyze_changes_with_llm(BaseResults, llm_adapter)
                   ELSE BaseResults)
          /\ returned[1].table_changes
                = _compare_tables(file1_tables, file2_tables, normalize_case)
          /\ returned[1].image_changes = _compare_images(file1_images, file2_images)
    /\ Returned => returned # None
    /\ raised # None =>
          /\ pc = "raised"
          /\ returned = None
          /\ raised[1].error.type = "ComparisonError"
          /\ raised[1].context # None
          /\ raised[1].error.reason = raised[1].context[1].str
    /\ pc = "raised" => raised # None
    /\ pc = "start" => comparison_results = <<>>
    /\ pc \in {"start", "paragraphs"} => table_changes = <<>>
    /\ pc \in {"start", "paragraphs", "tables"} => image_changes = <<>>

PhaseOrder ==
    /\ <<pc, pc'>> \in {<<"start", "paragraphs">>, <<"paragraphs", "tables">>,
                        <<"tables", "images">>, <<"images", "llm">>,
                        <<"images", "complete">>, <<"llm", "complete">>,
                        <<"complete", "statistics">>,
                        <<"start", "raised">>, <<"paragraphs", "raised">>,
                        <<"tables", "raised">>, <<"images", "raised">>}
    /\ pc' = "llm" => IsEnabled(llm_adapter)
    /\ (pc = "images" /\ pc' = "complete") => ~IsEnabled(llm_adapter)
    /\ (pc = "images" /\ pc' = "raised") => IsEnabled(llm_adapter)

\* C16: a run goes through the comparison of paragraphs, of tables and of
\* images in that order, then through the enrichment when the adapter is
\* enabled and only then, and hands the three lists over; or it raises
\* ComparisonError with the str() of the exception of the phase as its
\* reason, and hands nothing over, whatever the lists held by then.
C16_CompletesOrRaises == []RunStates /\ [][PhaseOrder]_vars

\* A run that raised in the comparison of images, with paragraph and table
\* records already in the lists.
C16_Witness ==
    /\ RaisedIn("_compare_images")
    /\ comparison_results # <<>>
    /\ table_changes # <<>>
    /\ returned = None

StatusCount(results, status) ==
    Cardinality({k \in 1..Len(results) : results[k].status = status})

\* p is count / total * 100.
IsPercentOf(p, count, total) == p.num * total = count * 100 * p.den

\* C17: the statistics agree with the result list.  Each of identical,
\* modified, added and deleted is the number of records of that status;
\* they add up to total; total is the length of the list, which is the
\* number of source paragraphs plus the added records; each percentage is
\* count / total * 100, and 0 when total is 0; and llm_analyzed is at most
\* modified + added + deleted.
C17_StatisticsConsistent ==
    pc = "statistics" =>
        /\ out[1].identical = StatusCount(returned[1].comparison_results, "identical")
        /\ out[1].modified = StatusCount(returned[1].comparison_results, "modified")
        /\ out[1].added = StatusCount(returned[1].comparison_results, "added")
        /\ out[1].deleted = StatusCount(returned[1].comparison_results, "deleted")
        /\ out[1].identical + out[1].modified + out[1].added + out[1].deleted
              = out[1].total
        /\ out[1].total = Len(returned[1].comparison_results)
        /\ out[1].total = NumSource + out[1].added
        /\ IF out[1].total = 0
           THEN /\ out[1].identical_percent = Zero
                /\ out[1].modified_percent = Zero
                /\ out[1].added_percent = Zero
                /\ out[1].deleted_percent = Zero
           ELSE /\ IsPercentOf(out[1].identical_percent, out[1].identical, out[1].total)
                /\ IsPercentOf(out[1].modified_percent, out[1].modified, out[1].total)
                /\ IsPercentOf(out[1].added_percent, out[1].added, out[1].total)
                /\ IsPercentOf(out[1].deleted_percent, out[1].deleted, out[1].total)
        /\ out[1].llm_analyzed
              <= out[1].modified + out[1].added + out[1].deleted

\* Statistics of a list of three records, one modified, one deleted and one
\* added, all three analysed.
C17_Witness ==
    /\ pc = "statistics"
    /\ NumSource = 2
    /\ out[1].total = 3
    /\ out[1].modified = 1
    /\ out[1].deleted = 1
    /\ out[1].added = 1
    /\ out[1].llm_analyzed = 3

\* The change types occurring in a result list.
ChangeTypesOf(results) == {results[k].change_type : k \in 1..Len(results)}

\* C18 (as stated): the statistics hold a table change_types that gives, for
\* every change type occurring in the result list, the number of records of
\* that type, and these numbers add up to the number of records.
C18_ChangeTypeCounts ==
    pc = "statistics" =>
        /\ "change_types" \in DOMAIN out[1]
        /\ DOMAIN out[1].change_types = ChangeTypesOf(returned[1].comparison_results)
        /\ \A ct \in ChangeTypesOf(returned[1].comparison_results) :
              out[1].change_types[ct]
                = Cardinality({k \in 1..Len(returned[1].comparison_results) :
                                 returned[1].comparison_results[k].change_type = ct})

----------------------------------------------------------------------------
(* The order of the three matching passes.                                 *)

Targets(pairs) == {p[2] : p \in pairs}
Sources(pairs) == {p[1] : p \in pairs}

\* Some record pairs source i with target j.
Paired(i, j) == \E r \in Records : r.index_1 = Some(i) /\ r.index_2 = Some(j)

PositionFirst(aligned, mapped) ==
    /\ aligned \subseteq mapped
    /\ \A p \in mapped : \A q \in mapped :
          (p[1] = q[1] \/ p[2] = q[2]) => p = q
    /\ \A p \in mapped : Paired(p[1], p[2])
    /\ \A r \in BestMatchRecords : r.index_2[1] \notin Targets(mapped)

\* C19: the pairs of the block alignment are all in the final mapping as
\* they were; the fingerprint pass gives no source a second target and no
\* target a second source; every pair of the mapping is a record of the
\* result; and no record paired by best similarity holds a target of the
\* mapping, the fingerprint pass being over before the first such choice.
C19_PositionMatchesFirst ==
    Done => PositionFirst(AlignedPairs, MappedPairs)

\* A run with a pair of each pass: aligned, fingerprint, best similarity.
C19_Witness ==
    /\ Done
    /\ AlignedPairs # {}
    /\ FingerprintPairs # {}
    /\ BestMatchRecords # {}

\* Target j passes the test of the fingerprint pass for source i.
Qualifies(i, j) ==
    \/ Norm1(i) = Norm2(j)
    \/ AtLeast(_calculate_similarity(Norm1(i), Norm2(j), normalize_case),
               similarity_threshold_high)

\* Target j is a candidate of source i that passes the test.
Hit(i, j) == Fp1(i) # <<>> /\ Fp2(j) = Fp1(i) /\ Qualifies(i, j)

\* Target j is consumed when the fingerprint pass comes to source i.
ConsumedBefore(i, j, aligned, mapped) ==
    \/ j \in Targets(aligned)
    \/ \E p \in mapped \ aligned : p[2] = j /\ p[1] < i

FirstHit(aligned, mapped) ==
    \A i \in (1..NumSource) \ Sources(aligned) :
        IF i \in Sources(mapped)
        THEN \E j \in 1..NumTarget :
                /\ <<i, j>> \in mapped
                /\ Hit(i, j)
                /\ ~ConsumedBefore(i, j, aligned, mapped)
                /\ \A earlier \in 1..(j - 1) :
                      Hit(i, earlier) => ConsumedBefore(i, earlier, aligned, mapped)
                /\ Paired(i, j)
        ELSE \A j \in 1..NumTarget :
                Hit(i, j) => ConsumedBefore(i, j, aligned, mapped)

\* C20: a source paragraph the alignment left out is matched by the
\* fingerprint pass to the first target, in the order of the second
\* document, that has its fingerprint, is not consumed yet and whose
\* normalized text is equal or at least 0.95 similar; later candidates are
\* not looked at, more similar or not; and it stays out of the mapping when
\* every such target is consumed already.
C20_FirstFingerprintHit ==
    Done => FirstHit(AlignedPairs, MappedPairs)

\* A source matched by fingerprint to a 0.95-similar target although a
\* later target has its very text, and a source that shares its
\* fingerprint with a target too different to be matched by it.
C20_Witness ==
    /\ Done
    /\ \E p \in FingerprintPairs :
          /\ Norm1(p[1]) # Norm2(p[2])
          /\ \E later \in (p[2] + 1)..NumTarget : Norm2(later) = Norm1(p[1])
    /\ \E i \in 1..NumSource : \E j \in 1..NumTarget :
          /\ Fp1(i) = Fp2(j)
          /\ ~Qualifies(i, j)
          /\ i \notin Sources(MappedPairs)

----------------------------------------------------------------------------
(* The best-similarity pass.                                               *)

\* The targets still free when the best-similarity pass comes to source i:
\* those outside the mapping that no earlier unmapped source was paired with.
FreeFor(i, mapped) ==
    {j \in 1..NumTarget :
        /\ j \notin Targets(mapped)
        /\ \A r \in Records :
              (HasBothSides(r) /\ r.index_1[1] < i /\ r.index_1[1] \notin Sources(mapped))
                  => r.index_2[1] # j}

\* SequenceMatcher's ratio of the normalized texts of source i and target j.
SimilarityTo(i, j) == ratio(Norm1(i), Norm2(j))

\* Target j is the first of the most similar targets of free.
IsBest(i, j, free) ==
    /\ j \in free
    /\ \A k \in free : ~Greater(SimilarityTo(i, k), SimilarityTo(i, j))
    /\ \A k \in free : k < j => Greater(SimilarityTo(i, j), SimilarityTo(i, k))

BestSimilarityPass(mapped) ==
    \A i \in (1..NumSource) \ Sources(mapped) :
        /\ \E r \in Records : r.index_1 = Some(i)
        /\ \A r \in Records :
              r.index_1 = Some(i) =>
                  IF \E j \in FreeFor(i, mapped) :
                         AtLeast(SimilarityTo(i, j), similarity_threshold_low)
                  THEN /\ r.status = "modified"
                       /\ r.index_2 # None
                       /\ IsBest(i, r.index_2[1], FreeFor(i, mapped))
                       /\ r.similarity = SimilarityTo(i, r.index_2[1])
                       /\ r.text_2 = Some(paragraphs2[r.index_2[1]].text)
                  ELSE /\ r.status = "deleted"
                       /\ r.index_2 = None
                       /\ r.text_2 = None

\* C21: a source paragraph outside the mapping is paired with the first of
\* the most similar targets among those that are neither in the mapping nor
\* taken by the best-similarity match of an earlier source, when that
\* similarity is at least 0.6, and the record carries that target and that
\* similarity; otherwise its record is deleted with no target, and the
\* targets stay free for the sources after it.
C21_BestSimilarityPass ==
    Done => BestSimilarityPass(MappedPairs)

\* A run in which a source is reported deleted although targets are free, a
\* source has two equally similar free targets and gets the first, and a
\* later source finds a target taken by an earlier best-similarity match.
C21_Witness ==
    /\ Done
    /\ \E r \in Records :
          /\ r.status = "deleted"
          /\ FreeFor(r.index_1[1], MappedPairs) # {}
    /\ \E r \in BestMatchRecords :
          \E k \in FreeFor(r.index_1[1], MappedPairs) :
              /\ k > r.index_2[1]
              /\ SimilarityTo(r.index_1[1], k) = r.similarity
    /\ \E r \in BestMatchRecords :
          \E j \in (1..NumTarget) \ Targets(MappedPairs) :
              /\ j \notin FreeFor(r.index_1[1], MappedPairs)
              /\ AtLeast(SimilarityTo(r.index_1[1], j), similarity_threshold_low)

----------------------------------------------------------------------------
(* The fingerprint of a text.                                              *)

\* The words of the normalized form of t.
WordsOf(t) == Split(_normalize_text(t, normalize_case))

\* first words | last words | character length | word count
Composed(first, last, normalized, words) ==
    first \o <<"|">> \o last \o <<"|">> \o Str(Len(normalized)) \o <<"|">> \o Str(Len(words))

\* The fingerprint as stated: the first K words and the last K words of
\* every text that has a word.
StatedFingerprint(t) ==
    IF WordsOf(t) = <<>> THEN <<>>
    ELSE Composed(Join(FirstItems(WordsOf(t), fingerprint_first_words)),
                  Join(LastItems(WordsOf(t), fingerprint_last_words)),
                  _normalize_text(t, normalize_case), WordsOf(t))

\* The fingerprint with the last K words only when the text has more than K
\* words, and nothing in their place otherwise.
LongTextFingerprint(t) ==
    IF WordsOf(t) = <<>> THEN <<>>
    ELSE Composed(Join(FirstItems(WordsOf(t), fingerprint_first_words)),
                  IF Len(WordsOf(t)) > fingerprint_last_words
                  THEN Join(LastItems(WordsOf(t), fingerprint_last_words))
                  ELSE <<>>,
                  _normalize_text(t, normalize_case), WordsOf(t))

\* The index holds the non-empty fingerprints of the two texts and no other
\* key, each with the offsets of the texts that have it, ascending.
IndexedNonEmpty ==
    pc = "indexed" =>
        /\ <<>> \notin DOMAIN out[3]
        /\ DOMAIN out[3] = {out[1], out[2]} \ {<<>>}
        /\ \A fp \in DOMAIN out[3] :
              out[3][fp] = (IF out[1] = fp THEN <<0>> ELSE <<>>)
                           \o (IF out[2] = fp THEN <<1>> ELSE <<>>)

\* Texts of the same non-empty normalized form have the same fingerprint.
EqualTextsEqualFingerprints ==
    (pc \in {"second", "indexed"}
     /\ _normalize_text(text, normalize_case) = _normalize_text(second_text, normalize_case))
        => out[1] = out[2]

\* C22 (as stated): the fingerprint is made of the first K words, the last K
\* words, the length and the word count of the normalized text for every
\* text with a word, texts of K words or fewer included; it is empty for a
\* text whose normalized form is empty, which is never indexed; and texts
\* of the same normalized form have the same fingerprint.
C22_Original ==
    /\ pc \in {"first", "second", "indexed"} => out[1] = StatedFingerprint(text)
    /\ pc \in {"second", "indexed"} => out[2] = StatedFingerprint(second_text)
    /\ IndexedNonEmpty
    /\ EqualTextsEqualFingerprints

\* C22 (amended): as stated, except that the last K words are part of the
\* fingerprint only when the text has more than K words; with K words or
\* fewer their place between the two bars is empty.
C22_Fingerprint ==
    /\ pc \in {"first", "second", "indexed"} => out[1] = LongTextFingerprint(text)
    /\ pc \in {"second", "indexed"} => out[2] = LongTextFingerprint(second_text)
    /\ IndexedNonEmpty
    /\ EqualTextsEqualFingerprints

\* An index of a text of more than K words whose raw form differs from its
\* normalized form, beside a text without words that has no entry.
C22_Witness ==
    /\ pc = "indexed"
    /\ Len(WordsOf(text)) > fingerprint_last_words
    /\ text # _normalize_text(text, normalize_case)
    /\ out[1] # <<>>
    /\ WordsOf(second_text) = <<>>
    /\ out[2] = <<>>
    /\ DOMAIN out[3] = {out[1]}


----------------------------------------------------------------------------
(* C23: the forms of _get_differences.                                     *)

\* The offsets of the sentences that no matching block covers on its side
\* and that are not blank.
NotCovered(sentences, blocks, side) ==
    {i \in 0..(Len(sentences) - 1) :
        /\ Strip(sentences[i + 1]) # <<>>
        /\ \A k \in 1..Len(blocks) :
              ~(/\ (IF side = "a" THEN blocks[k].a ELSE blocks[k].b) <= i
                /\ i < (IF side = "a" THEN blocks[k].a ELSE blocks[k].b) + blocks[k].size)}

\* The members of a set of offsets in increasing order.
InOrder(S) ==
    [k \in 1..Cardinality(S) |-> CHOOSE i \in S : Cardinality({j \in S : j < i}) = k - 1]

StatedSentenceEntries(sentences1, sentences2, blocks) ==
    [k \in 1..Cardinality(NotCovered(sentences1, blocks, "a")) |->
        Entry("deleted sentence",
              Strip(sentences1[InOrder(NotCovered(sentences1, blocks, "a"))[k] + 1]), <<>>)]
    \o [k \in 1..Cardinality(NotCovered(sentences2, blocks, "b")) |->
        Entry("added sentence", <<>>,
              Strip(sentences2[InOrder(NotCovered(sentences2, blocks, "b"))[k] + 1]))]

\* The form of two texts of which one is long: sentences, else words, else
\* the two full texts.
StatedLongForm(text1, text2, norm1, norm2) ==
    LET by_sentence == StatedSentenceEntries(SplitSentences(norm1), SplitSentences(norm2),
                           get_matching_blocks(SplitSentences(norm1), SplitSentences(norm2)))
        by_word == WordDifferences(Split(norm1), Split(norm2))
    IN  IF Len(by_sentence) > 0 THEN by_sentence
        ELSE IF Len(by_word) > 0 THEN by_word
        ELSE FullTexts(text1, text2)

BothShort(norm1, norm2) ==
    Len(norm1) < short_text_length /\ Len(norm2) < short_text_length

\* The first applicable form.
StatedForm(text1, text2, norm1, norm2) ==
    IF norm1 = norm2 /\ text1 # text2 THEN <<Entry("formatting", text1, <<>>)>>
    ELSE IF BothShort(norm1, norm2) THEN FullTexts(text1, text2)
    ELSE StatedLongForm(text1, text2, norm1, norm2)

\* The texts of a modified record differ, and its differences are the
\* stated form of them, which is not empty.
ModifiedHaveDifferences ==
    \A k \in 1..Len(comparison_results) :
        comparison_results[k].status = "modified"
            => /\ comparison_results[k].text_1 # comparison_results[k].text_2
               /\ comparison_results[k].differences # <<>>
               /\ comparison_results[k].differences =
                      FirstItems(StatedForm(comparison_results[k].text_1[1],
                                     comparison_results[k].text_2[1],
                                     _normalize_text(comparison_results[k].text_1[1],
                                                     normalize_case),
                                     _normalize_text(comparison_results[k].text_2[1],
                                                     normalize_case)),
                                 max_differences)

----------------------------------------------------------------------------
(* C24: the three stages of the table matching, with the tables of the     *)
(* second document consumed one by one.                                    *)

TablesCompared == pc = "tables_compared"

SharesHash(t, others) == \E k \in 1..Len(others) : others[k].hash = t.hash

TableSimilarity(k1, k2) ==
    _calculate_similarity(file1_tables[k1].text, file2_tables[k2].text, normalize_case)

\* The tables of the second document that table k1 may be paired with.
Partners(k1, consumed) ==
    {k2 \in (1..Len(file2_tables)) \ consumed :
        AtLeast(TableSimilarity(k1, k2), table_similarity_threshold)}

\* The first of the partners of maximal similarity, or 0.
StatedPartner(k1, consumed) ==
    IF Partners(k1, consumed) = {} THEN 0
    ELSE CHOOSE k2 \in Partners(k1, consumed) :
             \A m \in Partners(k1, consumed) :
                 /\ ~Greater(TableSimilarity(k1, m), TableSimilarity(k1, k2))
                 /\ m < k2 => Greater(TableSimilarity(k1, k2), TableSimilarity(k1, m))

\* Stage 2 from table k1 of the first document on: the triples <<status,
\* table 1, table 2>> (0 for none) and the consumed tables.
RECURSIVE StatedPairing(_, _, _)
StatedPairing(k1, consumed, triples) ==
    IF k1 > Len(file1_tables) THEN [triples |-> triples, consumed |-> consumed]
    ELSE IF SharesHash(file1_tables[k1], file2_tables)
    THEN StatedPairing(k1 + 1, consumed, triples)
    ELSE IF StatedPartner(k1, consumed) # 0
    THEN StatedPairing(k1 + 1, consumed \cup {StatedPartner(k1, consumed)},
             triples \cup {<<"modified", k1, StatedPartner(k1, consumed)>>})
    ELSE StatedPairing(k1 + 1, consumed, triples \cup {<<"deleted", k1, 0>>})

\* Stages 2 and 3 after stage 1 has consumed the tables of equal hash.
StatedTableTriples ==
    LET paired == StatedPairing(1, {k2 \in 1..Len(file2_tables) :
                                       SharesHash(file2_tables[k2], file1_tables)}, {})
    IN  paired.triples
        \cup {<<"added", 0, k2>> : k2 \in (1..Len(file2_tables)) \ paired.consumed}

IndexOrZero(field) == IF field = None THEN 0 ELSE field[1]

TableTriples ==
    {<<table_changes[k].status, IndexOrZero(table_changes[k].table_1_index),
       IndexOrZero(table_changes[k].table_2_index)>> :
        k \in {m \in 1..Len(table_changes) : table_changes[m].status # "identical"}}

IdenticalPairs ==
    {<<table_changes[k].table_1_index[1], table_changes[k].table_2_index[1]>> :
        k \in {m \in 1..Len(table_changes) : table_changes[m].status = "identical"}}

\* C24: tables of equal hash in both documents are reported identical; each
\* remaining table of document 1, in document order, is paired with the
\* first not yet consumed table of document 2 of maximal similarity >= 0.5
\* and reported modified with its cell changes, the chosen table being
\* consumed; a table of document 1 without partner is reported deleted and
\* a table of document 2 never consumed is reported added.
C24_ThreeStages ==
    TablesCompared =>
        /\ \A pair \in IdenticalPairs :
              file1_tables[pair[1]].hash = file2_tables[pair[2]].hash
        /\ \A k1 \in 1..Len(file1_tables) :
              SharesHash(file1_tables[k1], file2_tables)
                  => \E pair \in IdenticalPairs : pair[1] = k1
        /\ \A k2 \in 1..Len(file2_tables) :
              SharesHash(file2_tables[k2], file1_tables)
                  => \E pair \in IdenticalPairs : pair[2] = k2
        /\ TableTriples = StatedTableTriples
        /\ \A k \in 1..Len(table_changes) :
              table_changes[k].status = "modified"
                  => table_changes[k].cell_changes =
                         Some(_find_table_cell_changes(
                                  file1_tables[table_changes[k].table_1_index[1]],
                                  file2_tables[table_changes[k].table_2_index[1]]))

----------------------------------------------------------------------------
(* C27: every table in exactly one table change record.                    *)

RecordsOfTable1(k1) ==
    {k \in 1..Len(table_changes) : table_changes[k].table_1_index = Some(k1)}

RecordsOfTable2(k2) ==
    {k \in 1..Len(table_changes) : table_changes[k].table_2_index = Some(k2)}

\* C27: every table of document 1 is the table_1_index of exactly one table
\* change record and every table of document 2 the table_2_index of exactly
\* one, also when tables of one document have the same content hash.
C27_EveryTableOnce ==
    TablesCompared =>
        /\ \A k1 \in 1..Len(file1_tables) : Cardinality(RecordsOfTable1(file1_tables[k1].index)) = 1
        /\ \A k2 \in 1..Len(file2_tables) : Cardinality(RecordsOfTable2(file2_tables[k2].index)) = 1

----------------------------------------------------------------------------
(* C25, C28: the records of the image comparison.                          *)

ImagesCompared == pc = "images_compared"

ImageRecords(status) ==
    {k \in 1..Len(image_changes) : image_changes[k].status = status}

\* The images of one document whose record of the given status names them.
Reported1(status) ==
    {image_changes[k].image_1_index[1] :
        k \in {m \in ImageRecords(status) : image_changes[m].image_1_index # None}}

Reported2(status) ==
    {image_changes[k].image_2_index[1] :
        k \in {m \in ImageRecords(status) : image_changes[m].image_2_index # None}}

Indexes(images) == {images[k].index : k \in 1..Len(images)}

\* The images whose content hash occurs in the other document.
InBoth(images, others) == {images[k].index : k \in {m \in 1..Len(images) : HasHash(others, images[m].hash)}}

\* The ordinal indexes at which both documents have an image, with
\* different hashes, neither of which occurs in the other document.
SameSlot ==
    {i \in Indexes(file1_images) \cap Indexes(file2_images) :
        /\ file1_images[i].hash # file2_images[i].hash
        /\ ~HasHash(file2_images, file1_images[i].hash)
        /\ ~HasHash(file1_images, file2_images[i].hash)}

\* C25: the images whose hash occurs in both documents are reported
\* identical; two images of the same ordinal index with different hashes,
\* neither present in the other document, are reported as one modified
\* record pairing the two; all other images of document 1 are reported
\* deleted and all other images of document 2 added.
C25_ImageMatching ==
    ImagesCompared =>
        /\ Reported1("identical") = InBoth(file1_images, file2_images)
        /\ Reported2("identical") = InBoth(file2_images, file1_images)
        /\ \A k \in ImageRecords("identical") :
              file1_images[image_changes[k].image_1_index[1]].hash
                  = file2_images[image_changes[k].image_2_index[1]].hash
        /\ \A i \in SameSlot :
              Cardinality({k \in ImageRecords("modified") :
                              \/ image_changes[k].image_1_index = Some(i)
                              \/ image_changes[k].image_2_index = Some(i)}) = 1
        /\ \A k \in ImageRecords("modified") :
              /\ image_changes[k].image_1_index = image_changes[k].image_2_index
              /\ image_changes[k].image_1_index[1] \in SameSlot
        /\ (Indexes(file1_images) \ InBoth(file1_images, file2_images)) \ SameSlot
              \subseteq Reported1("deleted")
        /\ (Indexes(file2_images) \ InBoth(file2_images, file1_images)) \ SameSlot
              \subseteq Reported2("added")
        /\ Reported1("deleted") \cap InBoth(file1_images, file2_images) = {}
        /\ Reported2("added") \cap InBoth(file2_images, file1_images) = {}

RecordsOfImage1(i) ==
    {k \in 1..Len(image_changes) : image_changes[k].image_1_index = Some(i)}

RecordsOfImage2(i) ==
    {k \in 1..Len(image_changes) : image_changes[k].image_2_index = Some(i)}

\* C28: every image of document 1 and every image of document 2 is named by
\* exactly one image change record, so under exactly one status: an image
\* of a modified pair is in no deleted or added record, and an identical
\* image in no record of another status.
C28_EveryImageOnce ==
    ImagesCompared =>
        /\ \A i \in Indexes(file1_images) : Cardinality(RecordsOfImage1(i)) = 1
        /\ \A i \in Indexes(file2_images) : Cardinality(RecordsOfImage2(i)) = 1

----------------------------------------------------------------------------
(* C26: the retry loop of LLMAdapter.analyze_changes.                      *)

CallEnded == pc \in {"returned", "raised"}

RequestsAt == {i \in 1..Len(out.log) : out.log[i].event = "request"}

SleepsAt == {i \in 1..Len(out.log) : out.log[i].event = "sleep"}

Failed(outcome) == outcome \in {"exception", "model exception"}

\* The strings the call returns.
ReturnedStrings == {"", "No changes", LlmReply, "path. page 1. reply"}

\* At most max_retries requests, numbered from 0 in the order they are made.
BoundedRequests ==
    /\ Cardinality(RequestsAt) <= llm_adapter.max_retries
    /\ \A i \in RequestsAt :
          out.log[i].attempt = Cardinality({j \in RequestsAt : j < i})

\* Every wait follows a failed request, attempt k, and lasts retry_delay * 2^k.
WaitsAreBackoff ==
    \A i \in SleepsAt :
        /\ i - 1 \in RequestsAt
        /\ out.log[i - 1].outcome = "exception"
        /\ out.log[i].delay = llm_adapter.retry_delay_seconds * Pow2(out.log[i - 1].attempt)

\* A request that is not the last one of the call has failed and is
\* followed by its wait: the call stops at the first response.
RetriesFollowFailures ==
    \A i \in RequestsAt :
        i < Len(out.log) => Failed(out.log[i].outcome) /\ i + 1 \in SleepsAt

\* A call that has returned made its last request last, with no wait after
\* it, and returns the text for a response and the empty string otherwise.
ReturnsForLastRequest ==
    pc = "returned" =>
        /\ returned # None /\ returned[1] \in ReturnedStrings
        /\ raised = None
        /\ IF out.log = <<>>
           THEN /\ returned = Some("")
                /\ \/ ~llm_adapter.enabled
                   \/ llm_adapter.client = "none"
                   \/ llm_adapter.max_retries = 0
           ELSE /\ Len(out.log) \in RequestsAt
                /\ returned = Some(IF Failed(out.log[Len(out.log)].outcome) THEN ""
                                   ELSE ResponseText(out.log[Len(out.log)].outcome,
                                                     llm_adapter.context))
                /\ returned # Some("") => ~Failed(out.log[Len(out.log)].outcome)

\* The failed request a call ends with is the last of the max_retries
\* requests.
StopsOnlyWhenUsedUp ==
    pc = "returned" /\ out.log # <<>> /\ Failed(out.log[Len(out.log)].outcome)
        => out.log[Len(out.log)].attempt = llm_adapter.max_retries - 1

\* The same, but for a failure whose message names the model: it ends the
\* call at once.
StopsWhenUsedUpOrModelError ==
    pc = "returned" /\ out.log # <<>> /\ out.log[Len(out.log)].outcome = "exception"
        => out.log[Len(out.log)].attempt = llm_adapter.max_retries - 1

\* The only exception that leaves the call is the one of str.format on the
\* prompt template, before any request.
OnlyTemplateErrorEscapes ==
    raised # None =>
        /\ pc = "raised" /\ returned = None
        /\ out.log = <<>>
        /\ llm_adapter.user_prompt_template # "default"
        /\ raised[1].type = "KeyError"

----------------------------------------------------------------------------
(* C29: the paragraph records are well-formed for their status.            *)

Side1Absent(r) ==
    r.index_1 = None /\ r.text_1 = None /\ r.full_path_1 = None /\ r.page_1 = None

Side2Absent(r) ==
    r.index_2 = None /\ r.text_2 = None /\ r.full_path_2 = None /\ r.page_2 = None

Side1Present(r) ==
    r.index_1 # None /\ r.text_1 # None /\ r.full_path_1 # None /\ r.page_1 # None

Side2Present(r) ==
    r.index_2 # None /\ r.text_2 # None /\ r.full_path_2 # None /\ r.page_2 # None

InUnitInterval(x) == ~Greater(Zero, x) /\ ~Greater(x, One)

WellFormed(r) ==
    /\ r.status \in {"identical", "modified", "added", "deleted"}
    /\ r.status = "deleted" =>
          /\ Side1Present(r) /\ Side2Absent(r)
          /\ r.similarity = Zero
          /\ r.differences = <<>>
    /\ r.status = "added" =>
          /\ Side2Present(r) /\ Side1Absent(r)
          /\ r.similarity = Zero
          /\ r.differences = <<>>
    /\ r.status = "identical" =>
          /\ Side1Present(r) /\ Side2Present(r)
          /\ r.differences = <<>>
          /\ r.change_description = <<>>
    /\ r.status = "modified" =>
          /\ Side1Present(r) /\ Side2Present(r)
          /\ InUnitInterval(r.similarity)
          /\ AtLeast(r.similarity, similarity_threshold_low)

\* C29: every paragraph record has one of the four statuses; a deleted
\* record has no index, text, path and page of document 2, similarity 0 and
\* no differences; an added record the same with the sides exchanged; an
\* identical record has both sides, no differences and no change
\* description; a modified record has both sides and a similarity between
\* similarity_threshold_low and 1.
C29_WellFormedRecords ==
    \A k \in 1..Len(comparison_results) : WellFormed(comparison_results[k])

StatusesOf(results) == {results[k].status : k \in 1..Len(results)}

\* A finished comparison with a record of each status, the modified one
\* of a similarity below 1.
C29_Witness ==
    /\ Done
    /\ StatusesOf(comparison_results) = {"identical", "modified", "added", "deleted"}
    /\ \E k \in 1..Len(comparison_results) :
          /\ comparison_results[k].status = "modified"
          /\ Greater(One, comparison_results[k].similarity)

----------------------------------------------------------------------------
(* C30: the stack of headings while a document is parsed.                  *)

StrictlyIncreasingLevels(stack) ==
    \A k \in 1..(Len(stack) - 1) : stack[k].level < stack[k + 1].level

\* The position of the latest heading before position n of a level below
\* level, 0 when there is none.
LatestSmaller(headings, n, level) ==
    SetMax({0} \cup {j \in 1..(n - 1) : headings[j].level < level})

\* The stack the claim describes for a sequence of headings: the last
\* heading on top of the stack described for the headings up to the latest
\* earlier one of a smaller level.
RECURSIVE StatedStack(_)
StatedStack(headings) ==
    IF headings = <<>> THEN <<>>
    ELSE Append(StatedStack(SubSeq(headings, 1,
                    LatestSmaller(headings, Len(headings),
                                  headings[Len(headings)].level))),
                headings[Len(headings)])

TextsAndLevels(stack) ==
    [k \in 1..Len(stack) |-> [text |-> stack[k].text, level |-> stack[k].level]]

StackWellFormed ==
    pc \in {"parsing", "parsed"} =>
        /\ StrictlyIncreasingLevels(out.hierarchy_stack)
        /\ (text = <<>>) = (out.hierarchy_stack = <<>>)
        /\ text # <<>> =>
              TextsAndLevels(out.hierarchy_stack)[Len(out.hierarchy_stack)] = text[Len(text)]
        /\ TextsAndLevels(out.hierarchy_stack) = StatedStack(text)

\* The path of a paragraph added to self.paragraphs lists the headings of
\* the stack as it then is, bottom first.
PathFollowsStack ==
    paragraphs1' # paragraphs1 =>
        /\ Len(paragraphs1') = Len(paragraphs1) + 1
        /\ SubSeq(paragraphs1', 1, Len(paragraphs1)) = paragraphs1
        /\ paragraphs1'[Len(paragraphs1')].full_path = _build_full_path(out'.hierarchy_stack)

\* C30: after any sequence of heading updates, the levels in
\* hierarchy_stack increase strictly from bottom to top, the latest heading
\* is on top and every entry below is the latest earlier heading of a
\* strictly smaller level than the entry above it; the full_path of a
\* paragraph lists the entries of that stack, so no two headings of one
\* level and no deeper heading before a shallower one.
C30_HierarchyStack == []StackWellFormed /\ [][PathFollowsStack]_vars

\* Four headings read, of which two were popped: a paragraph whose path
\* has two parts, after a heading of a level not above the one before it.
C30_Witness ==
    /\ Len(text) = 4
    /\ Len(out.hierarchy_stack) = 2
    /\ text[3].level <= text[2].level
    /\ text[2].level > text[1].level
    /\ Len(paragraphs1) = 4
    /\ Len(paragraphs1[4].full_path) = 2

====
